---- MODULE Spec2Model ----
(***************************************************************************)
(* CausalService.run (backend/app/services/causal_service.py): one call of *)
(* the causal pipeline as a state machine.  The external collaborators     *)
(* (the PC structure learner, DoWhy's model builder, identifier,           *)
(* estimators and refuter) are nondeterministic: each either returns a     *)
(* value or raises.  Everything the service itself computes (coercion,     *)
(* null-row dropping, column selection, edge classification, the method    *)
(* order, the effect metrics, the bundle) is computed as the code does.    *)
(***************************************************************************)
EXTENDS Integers, Sequences, FiniteSets, TLC

VARIABLES
    pc,                 \* position of the call inside run
    df,                 \* the caller's table (argument df)
    treatment,          \* argument treatment
    outcome,            \* argument outcome
    estimator,          \* argument estimator: None or Some(name)
    df_num,             \* local df_num (coerced copy, null rows dropped)
    non_const_cols,     \* local non_const_cols
    subset_cols,        \* local subset_cols (columns of df_pc)
    ranked_cols,        \* local ranked of _select_columns_for_pc: None until it sorts
    cg,                 \* raw adjacency returned by the learner, as G.edges() enumerates it
    edges_directed,     \* local edges_directed
    edges_viz,          \* local edges_viz
    graph_nodes,        \* local graph_nodes
    dot_graph,          \* local dot_graph (the lines of the DOT text)
    nx_graph,           \* local nx_graph handed to CausalModel
    identified_estimand,\* local identified_estimand: None or Some(...)
    methods_order,      \* local methods_order
    method_idx,         \* position of the for loop over methods_order
    estimate,           \* local estimate: None or Some([method, value])
    est_error,          \* local est_error: None or Some(message)
    refute,             \* local refute: None, Some(result) or Some(error string)
    effect_metrics,     \* local effect_metrics
    bundle,             \* the returned dict: None until run returns
    exc,                \* the exception run raised: None or Some(type)
    trace,              \* history: the external components invoked, in order
    ep,                 \* position of the request inside its endpoint handler
    request,            \* the form fields of the request: None until one arrives
    upload,             \* the endpoint's df, parsed from the uploaded file
    cleaned_df,         \* causal_analyze_auto's local cleaned_df
    cleaning_info,      \* causal_analyze_auto's local cleaning_info
    response,           \* what the endpoint answered: None until it answers
    parked              \* the frame of a second call of run that is not executing

vars == <<pc, df, treatment, outcome, estimator, df_num, non_const_cols,
          subset_cols, ranked_cols, cg, edges_directed, edges_viz, graph_nodes, dot_graph,
          nx_graph, identified_estimand, methods_order, method_idx, estimate,
          est_error, refute, effect_metrics, bundle, exc, trace,
          ep, request, upload, cleaned_df, cleaning_info, response, parked>>

(***************************************************************************)
(* Bounds of the model.                                                    *)
(***************************************************************************)
MaxCols == 4        \* columns of an input table
MaxRows == 5        \* rows of an input table
MaxEdges == 3       \* raw edges the learner's graph enumerates

(***************************************************************************)
(* Python values.  None is the empty sequence, any other value x is <<x>>. *)
(***************************************************************************)
None == <<>>
Some(x) == <<x>>
IsNone(o) == o = <<>>
Get(o) == o[1]

Max(a, b) == IF a >= b THEN a ELSE b
Min(a, b) == IF a <= b THEN a ELSE b

\* Elements of a sequence, and membership (Python's "x in list").
Range(s) == {s[i] : i \in 1..Len(s)}
InSeq(x, s) == \E i \in 1..Len(s) : s[i] = x

\* [x for x in s if Keep(x)]
RECURSIVE FilterSeq(_, _)
FilterSeq(s, keep) ==
    IF s = <<>> THEN <<>>
    ELSE IF Head(s) \in keep THEN <<Head(s)>> \o FilterSeq(Tail(s), keep)
         ELSE FilterSeq(Tail(s), keep)

\* s[:k]
Take(s, k) == SubSeq(s, 1, Min(Len(s), Max(0, k)))

RECURSIVE SumSeq(_)
SumSeq(s) == IF s = <<>> THEN 0 ELSE Head(s) + SumSeq(Tail(s))

(***************************************************************************)
(* Column names are strings (pandas.read_csv headers).  TLC has no order   *)
(* on strings, so the lexicographic order of the names in use is tabled.   *)
(***************************************************************************)
ColumnNames == <<"b", "a", "d", "c", "f", "e">>
Absent == "z"
NameOrder == <<"a", "b", "c", "d", "e", "f", "z">>
NameRank(x) == CHOOSE i \in 1..Len(NameOrder) : NameOrder[i] = x
StrLess(x, y) == NameRank(x) < NameRank(y)
\* str(u) of a column label that is a str already
Str(u) == u

(***************************************************************************)
(* Tables.  A cell is a number, a missing value (NaN), a string holding a  *)
(* number or any other string.  A table is its ordered column labels and,  *)
(* per label, the column's cells by row position.                          *)
(***************************************************************************)
Num(v) == [kind |-> "num", v |-> v]
NaN == [kind |-> "nan", v |-> 0]
NumText(v) == [kind |-> "numtext", v |-> v]
Text == [kind |-> "text", v |-> 0]

ColumnKinds == {"const", "zero", "index", "text", "binary", "signed", "gap"}
CellOf(kind, i) ==
    CASE kind = "const" -> Num(5)
      [] kind = "zero" -> Num(0)
      [] kind = "signed" -> Num(IF i % 2 = 1 THEN -1 ELSE 1)
      [] kind = "index" -> Num(i)
      [] kind = "binary" -> Num(i % 2)
      [] kind = "gap" -> IF i = 2 THEN NaN ELSE Num(5)
      [] kind = "text" -> IF i = 1 THEN Text ELSE NumText(i)

MakeTable(kinds, m) ==
    LET cols == SubSeq(ColumnNames, 1, Len(kinds)) IN
    [columns |-> cols,
     data |-> [c \in Range(cols) |->
                 LET j == CHOOSE j \in 1..Len(cols) : cols[j] = c
                 IN [i \in 1..m |-> CellOf(kinds[j], i)]]]

NRows(t) == IF t.columns = <<>> THEN 0 ELSE Len(t.data[t.columns[1]])

\* np.issubdtype(df_num[col].dtype, np.number)
IsNumberDtype(col) == \A i \in 1..Len(col) : col[i].kind \in {"num", "nan"}

\* pd.to_numeric(col, errors="coerce")
ToNumeric(col) ==
    [i \in 1..Len(col) |->
        CASE col[i].kind = "num" -> col[i]
          [] col[i].kind = "numtext" -> Num(col[i].v)
          [] OTHER -> NaN]

\* lines 120-123: the copy with every non-numeric column coerced
CoerceNumeric(t) ==
    [columns |-> t.columns,
     data |-> [c \in Range(t.columns) |->
                 IF IsNumberDtype(t.data[c]) THEN t.data[c] ELSE ToNumeric(t.data[c])]]

\* row positions of t that hold no missing value, in order
RECURSIVE KeptRows(_, _)
KeptRows(t, i) ==
    IF i > NRows(t) THEN <<>>
    ELSE IF \A c \in Range(t.columns) : t.data[c][i].kind # "nan"
         THEN <<i>> \o KeptRows(t, i + 1)
         ELSE KeptRows(t, i + 1)

\* df.dropna()
DropNa(t) ==
    LET kept == KeptRows(t, 1) IN
    [columns |-> t.columns,
     data |-> [c \in Range(t.columns) |-> [i \in 1..Len(kept) |-> t.data[c][kept[i]]]]]

\* df[cols]: KeyError unless every label is a column
HasColumns(t, cols) == \A i \in 1..Len(cols) : InSeq(cols[i], t.columns)
Restrict(t, cols) ==
    [columns |-> cols, data |-> [c \in Range(cols) |-> t.data[c]]]

\* the numbers of a column without missing values
Values(col) == [i \in 1..Len(col) |-> col[i].v]

\* series.nunique(dropna=True)
NUnique(col) == Cardinality({col[i].v : i \in {j \in 1..Len(col) : col[j].kind # "nan"}})

(***************************************************************************)
(* Column ranking.  A score is a non-negative rational <<num, den>>.  The  *)
(* absolute Pearson correlation is compared through its square, which      *)
(* orders the columns as the absolute value does.                          *)
(***************************************************************************)
SumProd(x, y) == SumSeq([i \in 1..Len(x) |-> x[i] * y[i]])
\* n * sum(x*y) - sum(x) * sum(y): n*(n-1) times the sample covariance
CovN(x, y) == Len(x) * SumProd(x, y) - SumSeq(x) * SumSeq(y)
VarN(x) == CovN(x, x)

RatGreater(a, b) == a[1] * b[2] > b[1] * a[2]
RatEqual(a, b) == a[1] * b[2] = b[1] * a[2]

\* line 94-95: abs(corr), 0.0 when corr is NaN (a constant column, or n < 2)
AbsCorrScore(x, y) ==
    IF Len(x) < 2 \/ VarN(x) = 0 \/ VarN(y) = 0 THEN <<0, 1>>
    ELSE <<CovN(x, y) * CovN(x, y), VarN(x) * VarN(y)>>

\* line 97: std() or 0.0 (compared through the variance).  run calls the
\* selector with at least two rows, so std() is never NaN here.
StdScore(x) ==
    IF Len(x) < 2 THEN <<0, 1>> ELSE <<VarN(x), Len(x) * (Len(x) - 1)>>

\* lines 90-99: scores[c]
ColumnScore(t, out, c) ==
    IF InSeq(out, t.columns)
    THEN AbsCorrScore(Values(t.data[c]), Values(t.data[out]))
    ELSE StdScore(Values(t.data[c]))

\* mutant of the ranking: the remaining columns are taken in table order
RankedDescUnsorted(t, out, remaining) == remaining

\* line 100: sorted(remaining, key=scores.get, reverse=True); Python's sort
\* is stable, also with reverse=True
RankedDesc(t, out, remaining) ==
    LET sc(i) == ColumnScore(t, out, remaining[i])
        pos(i) == 1 + Cardinality({j \in 1..Len(remaining) : RatGreater(sc(j), sc(i))})
                    + Cardinality({j \in 1..(i - 1) : RatEqual(sc(j), sc(i))})
    IN [k \in 1..Len(remaining) |->
           remaining[CHOOSE i \in 1..Len(remaining) : pos(i) = k]]

\* line 84
MaxVarsAllowed(n, p) == Max(2, Min(p, Max(2, Min(n - 1, 12))))

\* lines 73-102: CausalService._select_columns_for_pc
SelectColumnsForPc(t, treat, out) ==
    LET n == NRows(t)
        p == Len(t.columns)
        base == FilterSeq(<<treat, out>>, Range(t.columns))
        max_vars_allowed == MaxVarsAllowed(n, p)
        remaining == FilterSeq(t.columns, Range(t.columns) \ Range(base))
        ranked == RankedDesc(t, out, remaining)
        take == max_vars_allowed - Len(base)
    IN IF Len(base) >= max_vars_allowed
       THEN Take(base, max_vars_allowed)
       ELSE base \o Take(ranked, Max(0, take))

(***************************************************************************)
(* run, lines 119-152: coercion, the input check and the column subset.    *)
(***************************************************************************)
\* mutant of lines 130-132: constant columns are kept
NonConstColsAll(t) == t.columns

\* lines 130-132
NonConstCols(t) ==
    FilterSeq(t.columns, {c \in Range(t.columns) : NUnique(t.data[c]) > 1})

\* line 142: the bound under which every non-constant column is kept
PcColumnBound(n) == Max(3, Min(n - 2, 20))

\* lines 141-145
ChosenSubset(t, treat, out) ==
    LET ncc == NonConstCols(t)
        df_pc_base == Restrict(t, ncc)
        n == NRows(df_pc_base)
    IN IF Len(ncc) <= PcColumnBound(n) THEN ncc
       ELSE SelectColumnsForPc(df_pc_base, treat, out)

\* whether line 145 runs
SelectorInvoked(t) ==
    LET ncc == NonConstCols(t)
    IN Len(ncc) >= 2 /\ Len(ncc) > PcColumnBound(NRows(Restrict(t, ncc)))

\* mutant of lines 147-150: the subset is left as chosen
EnsureTargetsSkipped(cols, treat, out) == cols

\* lines 147-150
EnsureTargets(cols, treat, out) ==
    LET withT == IF InSeq(treat, cols) THEN cols
                 ELSE <<treat>> \o FilterSeq(cols, Range(cols) \ {treat})
    IN IF InSeq(out, withT) THEN withT
       ELSE <<out>> \o FilterSeq(withT, Range(withT) \ {out})

SubsetCols(t, treat, out) == EnsureTargets(ChosenSubset(t, treat, out), treat, out)

\* lines 82-100 as run reaches them: the selector's ranked list, None when
\* the selector is not called or returns at line 86
RankedBySelector(t, treat, out) ==
    LET df_pc_base == Restrict(t, NonConstCols(t))
        base == FilterSeq(<<treat, out>>, Range(df_pc_base.columns))
        remaining == FilterSeq(df_pc_base.columns, Range(df_pc_base.columns) \ Range(base))
    IN IF SelectorInvoked(t)
          /\ Len(base) < MaxVarsAllowed(NRows(df_pc_base), Len(df_pc_base.columns))
       THEN Some(RankedDesc(df_pc_base, out, remaining))
       ELSE None

Edge(u, v) == [source |-> u, target |-> v]
\* lines 135-136, 162-163, 168-169
MinimalEdges(treat, out) == <<Edge(treat, out)>>

(***************************************************************************)
(* Graph classifier and model graph.  The learner's graph is the sequence  *)
(* of ordered pairs <<u, v>> that G.edges() enumerates.                    *)
(***************************************************************************)
\* mutant of the tie-break: the pair is keyed as enumerated
SortedPairAsGiven(u, v) == <<u, v>>

\* line 50: tuple(sorted((u, v)))
SortedPair(u, v) == IF StrLess(v, u) THEN <<v, u>> ELSE <<u, v>>

\* lines 45-60: the loop over G.edges(), from position i on
RECURSIVE ClassifyFrom(_, _, _, _, _)
ClassifyFrom(edges, i, seen_undirected, dir_edges, viz_edges) ==
    IF i > Len(edges) THEN [dir |-> dir_edges, viz |-> viz_edges]
    ELSE LET u == Str(edges[i][1])
             v == Str(edges[i][2])
             edge_set == Range(edges)
             key == SortedPair(u, v)
         IN IF <<v, u>> \in edge_set
            THEN IF key \notin seen_undirected
                 THEN ClassifyFrom(edges, i + 1, seen_undirected \cup {key}, dir_edges,
                                   Append(viz_edges, Edge(key[1], key[2])))
                 ELSE ClassifyFrom(edges, i + 1, seen_undirected, dir_edges, viz_edges)
            ELSE ClassifyFrom(edges, i + 1, seen_undirected,
                              Append(dir_edges, Edge(u, v)),
                              Append(viz_edges, Edge(u, v)))

\* mutant of the classifier: the reverse edge is never looked up
GraphToEdgeSetsAllDirected(edges) ==
    LET all == [i \in 1..Len(edges) |-> Edge(Str(edges[i][1]), Str(edges[i][2]))]
    IN [dir |-> all, viz |-> all]

\* mutant of the classifier: an undirected pair gets no representative
GraphToEdgeSetsNoRepresentative(edges) ==
    [dir |-> ClassifyFrom(edges, 1, {}, <<>>, <<>>).dir,
     viz |-> ClassifyFrom(edges, 1, {}, <<>>, <<>>).dir]

\* lines 35-61: CausalService._graph_to_edge_sets
GraphToEdgeSets(edges) == ClassifyFrom(edges, 1, {}, <<>>, <<>>)

\* lines 63-71: CausalService._edges_to_dot, the text line by line
DotLine(kind, a, b) == [line |-> kind, a |-> a, b |-> b]
EdgesToDot(nodes, edges) ==
    <<DotLine("digraph G {", "", "")>>
    \o [i \in 1..Len(nodes) |-> DotLine("node", nodes[i], "")]
    \o [i \in 1..Len(edges) |-> DotLine("arc", edges[i].source, edges[i].target)]
    \o <<DotLine("}", "", "")>>

\* lines 180-182: nx.DiGraph with add_nodes_from and add_edges_from
NxDiGraph(nodes, edges) ==
    [nodes |-> Range(nodes)
               \cup {edges[i].source : i \in 1..Len(edges)}
               \cup {edges[i].target : i \in 1..Len(edges)},
     arcs |-> {<<edges[i].source, edges[i].target>> : i \in 1..Len(edges)}]

(***************************************************************************)
(* Estimator cascade, lines 191-215.                                       *)
(***************************************************************************)
LinearRegression == "backdoor.linear_regression"
PropensityWeighting == "backdoor.propensity_score_weighting"
PropensityMatching == "backdoor.propensity_score_matching"
DefaultMethods == <<LinearRegression, PropensityWeighting, PropensityMatching>>

\* mutant of the lookup: a name the map lacks is used as the method name
EstMapPassThrough(name) ==
    CASE name = "linear_regression" -> Some(LinearRegression)
      [] name = "psw" -> Some(PropensityWeighting)
      [] name = "propensity_score_weighting" -> Some(PropensityWeighting)
      [] name = "psm" -> Some(PropensityMatching)
      [] name = "propensity_score_matching" -> Some(PropensityMatching)
      [] name = "auto" -> None
      [] OTHER -> Some(name)

\* lines 196-204: est_map.get(estimator)
EstMap(name) ==
    CASE name = "linear_regression" -> Some(LinearRegression)
      [] name = "psw" -> Some(PropensityWeighting)
      [] name = "propensity_score_weighting" -> Some(PropensityWeighting)
      [] name = "psm" -> Some(PropensityMatching)
      [] name = "propensity_score_matching" -> Some(PropensityMatching)
      [] OTHER -> None

\* "if estimator:" -- None and the empty string are falsy
Truthy(o) == ~IsNone(o) /\ Get(o) # ""

\* lines 194-206
Preferred(est) ==
    IF Truthy(est) /\ ~IsNone(EstMap(Get(est))) THEN <<Get(EstMap(Get(est)))>> ELSE <<>>

\* mutant of the method order: the defaults are not filtered
MethodsOrderUnfiltered(est) == Preferred(est) \o DefaultMethods

\* lines 207-215
MethodsOrder(est) ==
    Preferred(est) \o FilterSeq(DefaultMethods, Range(DefaultMethods) \ Range(Preferred(est)))

NoValue == [kind |-> "none", v |-> 0]
NumValue(v) == [kind |-> "num", v |-> v]
\* a CausalEstimate: the producing method and its value (a number or None)
Estimate(method, value) == [method |-> method, value |-> value]

\* the strings run puts in the bundle
EstimateStr(e) == [text |-> "estimate", method |-> e.method, value |-> e.value, msg |-> ""]
FailedStr(prefix, m) == [text |-> prefix, method |-> "", value |-> NoValue, msg |-> m]
RefutationStr == [text |-> "refutation", method |-> "", value |-> NoValue, msg |-> ""]
NoneStr == [text |-> "None", method |-> "", value |-> NoValue, msg |-> ""]

\* lines 296-300
BundleEstimate(est, err) ==
    IF ~IsNone(est) THEN Some(EstimateStr(Get(est)))
    ELSE IF Truthy(err) THEN Some(FailedStr("Estimation failed: ", Get(err)))
    ELSE None

\* lines 291-295
BundleEstimateValue(est) ==
    IF ~IsNone(est) /\ Get(est).value.kind = "num" THEN Some(Get(est).value.v) ELSE None

\* line 301: str(refute); str(None) is the string "None"
BundleRefutation(ref) == IF IsNone(ref) THEN NoneStr ELSE Get(ref)

(***************************************************************************)
(* Effect-size metrics, lines 238-278.  Floats are kept exact: a rational  *)
(* n/d in lowest terms, the square root of one, an integer over such a     *)
(* root, or NaN.                                                           *)
(***************************************************************************)
Abs(x) == IF x < 0 THEN -x ELSE x
RECURSIVE Gcd(_, _)
Gcd(a, b) == IF b = 0 THEN a ELSE Gcd(b, a % b)

NanNum == [k |-> "nan", a |-> 0, n |-> 0, d |-> 1]
Shaped(kind, a, n, d) ==
    LET g == Gcd(Abs(n), Abs(d))
        sgn == IF d < 0 THEN -1 ELSE 1
    IN [k |-> kind, a |-> a, n |-> sgn * (n \div g), d |-> sgn * (d \div g)]
RatNum(n, d) == Shaped("rat", 0, n, d)
SqrtNum(n, d) == Shaped("sqrt", 0, n, d)
OverSqrt(a, n, d) == Shaped("over_sqrt", a, n, d)

\* series.mean(): NaN on an empty series
Mean(x) == IF Len(x) = 0 THEN NanNum ELSE RatNum(SumSeq(x), Len(x))

\* y[t == val]
RECURSIVE SelectWhere(_, _, _)
SelectWhere(y, t, val) ==
    IF y = <<>> THEN <<>>
    ELSE IF Head(t) = val THEN <<Head(y)>> \o SelectWhere(Tail(y), Tail(t), val)
         ELSE SelectWhere(Tail(y), Tail(t), val)

SetMin(S) == CHOOSE x \in S : \A y \in S : x <= y
SetMax(S) == CHOOSE x \in S : \A y \in S : x >= y

\* mutant of line 251: a zero standard deviation is kept
OutcomeStdKeepsZero(y, nan_is_np_nan) ==
    IF Len(y) < 2 THEN (IF nan_is_np_nan THEN None ELSE Some(NanNum))
    ELSE Some(SqrtNum(VarN(y), Len(y) * (Len(y) - 1)))

\* line 251: std(ddof=1) is 0 on a constant column and NaN under two rows;
\* whether that NaN is the np.nan object itself ("in" tests identity first)
\* is the library's choice: nan_is_np_nan
OutcomeStd(y, nan_is_np_nan) ==
    IF Len(y) < 2 THEN (IF nan_is_np_nan THEN None ELSE Some(NanNum))
    ELSE IF VarN(y) = 0 THEN None
    ELSE Some(SqrtNum(VarN(y), Len(y) * (Len(y) - 1)))

\* mutant of lines 253-259: the groups are subtracted the other way round
GroupMeanDiffSwapped(t, y) ==
    LET distinct == Range(t) IN
    IF Cardinality(distinct) # 2 THEN None
    ELSE LET g0 == SelectWhere(y, t, SetMin(distinct))
             g1 == SelectWhere(y, t, SetMax(distinct))
         IN IF Len(g0) > 1 /\ Len(g1) > 1
            THEN Some(RatNum(SumSeq(g0) * Len(g1) - SumSeq(g1) * Len(g0), Len(g1) * Len(g0)))
            ELSE None

\* lines 253-259
GroupMeanDiff(t, y) ==
    LET distinct == Range(t) IN
    IF Cardinality(distinct) # 2 THEN None
    ELSE LET g0 == SelectWhere(y, t, SetMin(distinct))
             g1 == SelectWhere(y, t, SetMax(distinct))
         IN IF Len(g0) > 1 /\ Len(g1) > 1
            THEN Some(RatNum(SumSeq(g1) * Len(g0) - SumSeq(g0) * Len(g1), Len(g1) * Len(g0)))
            ELSE None

\* mutant of line 260: the ratio is not scaled to a percentage
PercentOfMeanUnscaled(est_val, y, nan_is_np_nan) ==
    IF Len(y) = 0 THEN (IF nan_is_np_nan THEN None ELSE Some(NanNum))
    ELSE IF SumSeq(y) = 0 THEN None
    ELSE Some(RatNum(est_val * Len(y), SumSeq(y)))

\* line 260: the mean of no rows is NaN; float() hands a Python float back as
\* it is, so whether y_mean is the np.nan object is again the library's choice
PercentOfMean(est_val, y, nan_is_np_nan) ==
    IF Len(y) = 0 THEN (IF nan_is_np_nan THEN None ELSE Some(NanNum))
    ELSE IF SumSeq(y) = 0 THEN None
    ELSE Some(RatNum(est_val * 100 * Len(y), SumSeq(y)))

\* line 261
Standardized(est_val, y_std) ==
    IF IsNone(y_std) THEN None
    ELSE IF Get(y_std).k = "nan" THEN Some(NanNum)
    ELSE Some(OverSqrt(est_val, Get(y_std).n, Get(y_std).d))

\* mutant of lines 271-275: the percentage is preferred
EffectScorePercentFirst(est_val, standardized, pct_of_mean) ==
    IF ~IsNone(pct_of_mean) THEN pct_of_mean
    ELSE IF ~IsNone(standardized) THEN standardized
    ELSE Some(RatNum(est_val, 1))

\* lines 271-275: a NaN computed here is never the np.nan object
EffectScore(est_val, standardized, pct_of_mean) ==
    IF ~IsNone(standardized) THEN standardized
    ELSE IF ~IsNone(pct_of_mean) THEN pct_of_mean
    ELSE Some(RatNum(est_val, 1))

\* lines 241-243
EstVal(est) ==
    IF ~IsNone(est) /\ Get(est).value.kind = "num" THEN Some(Get(est).value.v) ELSE None

\* lines 246-276
EffectMetrics(t, treat, out, est_val, mean_is_np_nan, std_is_np_nan) ==
    LET t_series == Values(t.data[treat])
        y_series == Values(t.data[out])
        y_std == OutcomeStd(y_series, std_is_np_nan)
        pct_of_mean == PercentOfMean(est_val, y_series, mean_is_np_nan)
        standardized == Standardized(est_val, y_std)
    IN [kind |-> "metrics",
        estimate_value |-> est_val,
        outcome_mean |-> Mean(y_series),
        outcome_std |-> y_std,
        treatment_mean |-> Mean(t_series),
        group_mean_diff |-> GroupMeanDiff(t_series, y_series),
        percent_of_outcome_mean |-> pct_of_mean,
        standardized_effect |-> standardized,
        effect_score |-> EffectScore(est_val, standardized, pct_of_mean)]

\* line 239
EmptyMetrics == [kind |-> "empty"]
\* line 278
ErrorMetrics(m) == [kind |-> "error", error |-> FailedStr("Effect size computation failed: ", m)]

(***************************************************************************)
(* Inputs and the answers of the external components.                      *)
(***************************************************************************)
\* the tables with the given column kinds, column counts and row counts
TablesOf(kinds, counts, rows) ==
    {MakeTable(ks, m) : ks \in UNION {[1..k -> kinds] : k \in counts}, m \in rows}

\* the graphs a learner can return over the nodes: up to max_edges ordered
\* pairs of distinct nodes, none twice, in any enumeration order
RawGraphs(nodes, max_edges) ==
    LET pairs == {e \in nodes \X nodes : e[1] # e[2]}
    IN {s \in UNION {[1..k -> pairs] : k \in 0..max_edges} :
           \A i, j \in 1..Len(s) : i # j => s[i] # s[j]}

EstimatorNames ==
    {"", "auto", "linear_regression", "psw", "propensity_score_weighting",
     "psm", "propensity_score_matching", "other"}
ErrorMessages == {"", "singular matrix", "no overlap"}

(***************************************************************************)
(* The state machine of one call of run.                                   *)
(***************************************************************************)
\* the locals of a call of run that has not been entered
IdleFrame ==
    [pc |-> "idle", df |-> None, treatment |-> None, outcome |-> None,
     estimator |-> None, df_num |-> None, non_const_cols |-> None,
     subset_cols |-> None, ranked_cols |-> None, cg |-> None,
     edges_directed |-> None, edges_viz |-> None, graph_nodes |-> None,
     dot_graph |-> None, nx_graph |-> None, identified_estimand |-> None,
     methods_order |-> None, method_idx |-> 0, estimate |-> None,
     est_error |-> None, refute |-> None, effect_metrics |-> EmptyMetrics,
     bundle |-> None, exc |-> None, trace |-> <<>>]

Init ==
    /\ pc = "idle"
    /\ df = None /\ treatment = None /\ outcome = None /\ estimator = None
    /\ df_num = None /\ non_const_cols = None /\ subset_cols = None /\ ranked_cols = None
    /\ cg = None /\ edges_directed = None /\ edges_viz = None
    /\ graph_nodes = None /\ dot_graph = None /\ nx_graph = None
    /\ identified_estimand = None /\ methods_order = None /\ method_idx = 0
    /\ estimate = None /\ est_error = None /\ refute = None
    /\ effect_metrics = EmptyMetrics /\ bundle = None /\ exc = None
    /\ trace = <<>>
    /\ ep = "idle" /\ request = None /\ upload = None
    /\ cleaned_df = None /\ cleaning_info = None /\ response = None
    /\ parked = IdleFrame

\* one invocation of an external component and how it ended
Returned(call) == [call |-> call, raised |-> FALSE, msg |-> "", value |-> NoValue]
ReturnedValue(call, v) == [call |-> call, raised |-> FALSE, msg |-> "", value |-> v]
Raised(call, m) == [call |-> call, raised |-> TRUE, msg |-> m, value |-> NoValue]

args == <<df, treatment, outcome, estimator>>
selection == <<non_const_cols, subset_cols, ranked_cols>>
learned == <<cg, edges_directed, edges_viz>>
modelled == <<graph_nodes, dot_graph, nx_graph>>
cascade == <<methods_order, method_idx, estimate, est_error>>
outputs == <<refute, effect_metrics, bundle>>
\* what a step of run does not touch: its caller's handler and any other call
outside == <<ep, request, upload, cleaned_df, cleaning_info, response, parked>>

\* run(df, treatment, outcome, estimator=...) is entered
CallRun(tables, targets, estimators) ==
    /\ pc = "idle"
    /\ \E t \in tables, tr \in targets, out \in targets, est \in estimators :
          /\ df' = t
          /\ treatment' = tr
          /\ outcome' = out
          /\ estimator' = est
    /\ pc' = "coerce"
    /\ UNCHANGED <<outside, df_num, selection, learned, modelled, identified_estimand,
                   cascade, outputs, exc, trace>>

\* mutant of the coercion: done on the caller's table, not on a copy
CoerceAndDropNullsInPlace ==
    /\ pc = "coerce"
    /\ df' = DropNa(CoerceNumeric(df))
    /\ df_num' = DropNa(CoerceNumeric(df))
    /\ pc' = "check"
    /\ UNCHANGED <<outside, treatment, outcome, estimator, selection, learned, modelled,
                   identified_estimand, cascade, outputs, exc, trace>>

\* lines 120-124
CoerceAndDropNulls ==
    /\ pc = "coerce"
    /\ df_num' = DropNa(CoerceNumeric(df))
    /\ pc' = "check"
    /\ UNCHANGED <<outside, args, selection, learned, modelled, identified_estimand,
                   cascade, outputs, exc, trace>>

\* mutant of the input check: the outcome is not looked up
TreatmentPresent == InSeq(treatment, df_num.columns)

\* line 126
TargetsPresent == InSeq(treatment, df_num.columns) /\ InSeq(outcome, df_num.columns)

\* lines 126-127
RaiseInputError ==
    /\ pc = "check"
    /\ ~TargetsPresent
    /\ exc' = Some("ValueError")
    /\ pc' = "raised"
    /\ UNCHANGED <<outside, args, df_num, selection, learned, modelled, identified_estimand,
                   cascade, outputs, trace>>

\* mutant of the fallback: the lone column is sent to the learner
MinimalGraphFallbackLearns ==
    /\ pc = "check"
    /\ TargetsPresent
    /\ Len(NonConstCols(df_num)) < 2
    /\ non_const_cols' = NonConstCols(df_num)
    /\ subset_cols' = NonConstCols(df_num)
    /\ pc' = "learn"
    /\ UNCHANGED <<outside, args, df_num, ranked_cols, learned, modelled, identified_estimand,
                   cascade, outputs, exc, trace>>

\* lines 130-136: fewer than two non-constant columns
MinimalGraphFallback ==
    /\ pc = "check"
    /\ TargetsPresent
    /\ Len(NonConstCols(df_num)) < 2
    /\ non_const_cols' = NonConstCols(df_num)
    /\ edges_directed' = MinimalEdges(treatment, outcome)
    /\ edges_viz' = MinimalEdges(treatment, outcome)
    /\ pc' = "build"
    /\ UNCHANGED <<outside, args, df_num, subset_cols, ranked_cols, cg, modelled, identified_estimand,
                   cascade, outputs, exc, trace>>

SelectorTrace == IF SelectorInvoked(df_num) THEN <<Returned("selector")>> ELSE <<>>

\* lines 130-152: df_pc = df_pc_base[subset_cols] succeeds
SelectColumns ==
    /\ pc = "check"
    /\ TargetsPresent
    /\ Len(NonConstCols(df_num)) >= 2
    /\ HasColumns(Restrict(df_num, NonConstCols(df_num)),
                  SubsetCols(df_num, treatment, outcome))
    /\ non_const_cols' = NonConstCols(df_num)
    /\ subset_cols' = SubsetCols(df_num, treatment, outcome)
    /\ ranked_cols' = RankedBySelector(df_num, treatment, outcome)
    /\ trace' = trace \o SelectorTrace
    /\ pc' = "learn"
    /\ UNCHANGED <<outside, args, df_num, learned, modelled, identified_estimand,
                   cascade, outputs, exc>>

\* line 152: df_pc_base[subset_cols] names a column df_pc_base lacks
SelectColumnsKeyError ==
    /\ pc = "check"
    /\ TargetsPresent
    /\ Len(NonConstCols(df_num)) >= 2
    /\ ~HasColumns(Restrict(df_num, NonConstCols(df_num)),
                   SubsetCols(df_num, treatment, outcome))
    /\ non_const_cols' = NonConstCols(df_num)
    /\ subset_cols' = SubsetCols(df_num, treatment, outcome)
    /\ ranked_cols' = RankedBySelector(df_num, treatment, outcome)
    /\ trace' = trace \o SelectorTrace
    /\ exc' = Some("KeyError")
    /\ pc' = "raised"
    /\ UNCHANGED <<outside, args, df_num, learned, modelled, identified_estimand,
                   cascade, outputs>>

\* line 156: the learner returns a graph
LearnGraph(max_edges) ==
    /\ pc = "learn"
    /\ \E raw \in RawGraphs(Range(subset_cols), max_edges) : cg' = Some(raw)
    /\ trace' = Append(trace, Returned("learner"))
    /\ pc' = "classify"
    /\ UNCHANGED <<outside, args, df_num, selection, edges_directed, edges_viz, modelled,
                   identified_estimand, cascade, outputs, exc>>

\* mutant of the learner's except branches: the error leaves run
LearnGraphRaisesSurfaced ==
    /\ pc = "learn"
    /\ trace' = Append(trace, Raised("learner", "math domain error"))
    /\ exc' = Some("ValueError")
    /\ pc' = "raised"
    /\ UNCHANGED <<outside, args, df_num, selection, learned, modelled, identified_estimand,
                   cascade, outputs>>

\* lines 156, 158-169: the learner raises
LearnGraphRaises ==
    /\ pc = "learn"
    /\ trace' = Append(trace, Raised("learner", "math domain error"))
    /\ edges_directed' = MinimalEdges(treatment, outcome)
    /\ edges_viz' = MinimalEdges(treatment, outcome)
    /\ pc' = "build"
    /\ UNCHANGED <<outside, args, df_num, selection, cg, modelled, identified_estimand,
                   cascade, outputs, exc>>

\* line 157
ClassifyGraph ==
    /\ pc = "classify"
    /\ edges_directed' = GraphToEdgeSets(Get(cg)).dir
    /\ edges_viz' = GraphToEdgeSets(Get(cg)).viz
    /\ trace' = Append(trace, Returned("classifier"))
    /\ pc' = "build"
    /\ UNCHANGED <<outside, args, df_num, selection, cg, modelled, identified_estimand,
                   cascade, outputs, exc>>

\* lines 157, 158-169: reading the learner's graph raises
ClassifyGraphRaises ==
    /\ pc = "classify"
    /\ edges_directed' = MinimalEdges(treatment, outcome)
    /\ edges_viz' = MinimalEdges(treatment, outcome)
    /\ trace' = Append(trace, Raised("classifier", "bad graph"))
    /\ pc' = "build"
    /\ UNCHANGED <<outside, args, df_num, selection, cg, modelled, identified_estimand,
                   cascade, outputs, exc>>

\* mutant of the model graph: built from the visualization edges
BuildGraphFromViz ==
    /\ graph_nodes' = df_num.columns
    /\ dot_graph' = EdgesToDot(df_num.columns, edges_viz)
    /\ nx_graph' = NxDiGraph(df_num.columns, edges_viz)

\* lines 172-182
BuildGraph ==
    /\ graph_nodes' = df_num.columns
    /\ dot_graph' = EdgesToDot(df_num.columns, edges_directed)
    /\ nx_graph' = NxDiGraph(df_num.columns, edges_directed)

\* lines 172-186: CausalModel(...) returns
BuildModel ==
    /\ pc = "build"
    /\ BuildGraph
    /\ trace' = Append(trace, Returned("model_builder"))
    /\ pc' = "identify"
    /\ UNCHANGED <<outside, args, df_num, selection, learned, identified_estimand,
                   cascade, outputs, exc>>

\* lines 172-186: CausalModel(...) raises
BuildModelRaises ==
    /\ pc = "build"
    /\ BuildGraph
    /\ trace' = Append(trace, Raised("model_builder", "model error"))
    /\ exc' = Some("ModelError")
    /\ pc' = "raised"
    /\ UNCHANGED <<outside, args, df_num, selection, learned, identified_estimand,
                   cascade, outputs>>

\* lines 189-215: identify_effect returns; the method order is fixed
IdentifyEffect ==
    /\ pc = "identify"
    /\ identified_estimand' = Some("backdoor")
    /\ methods_order' = MethodsOrder(estimator)
    /\ method_idx' = 1
    /\ trace' = Append(trace, Returned("identifier"))
    /\ pc' = "estimate"
    /\ UNCHANGED <<outside, args, df_num, selection, learned, modelled, estimate, est_error,
                   outputs, exc>>

\* line 189: identify_effect raises
IdentifyEffectRaises ==
    /\ pc = "identify"
    /\ trace' = Append(trace, Raised("identifier", "identify error"))
    /\ exc' = Some("IdentifyError")
    /\ pc' = "raised"
    /\ UNCHANGED <<outside, args, df_num, selection, learned, modelled, identified_estimand,
                   cascade, outputs>>

\* mutant of the cascade: no break after a success
EstimateEffectNoBreak(values) ==
    /\ pc = "estimate"
    /\ \E v \in values :
          /\ estimate' = Some(Estimate(methods_order[method_idx], v))
          /\ trace' = Append(trace, ReturnedValue(methods_order[method_idx], v))
    /\ method_idx' = method_idx + 1
    /\ pc' = IF method_idx = Len(methods_order) THEN "refute" ELSE "estimate"
    /\ UNCHANGED <<outside, args, df_num, selection, learned, modelled, identified_estimand,
                   methods_order, est_error, outputs, exc>>

\* lines 216-221: the method returns an estimate; break
EstimateEffect(values) ==
    /\ pc = "estimate"
    /\ \E v \in values :
          /\ estimate' = Some(Estimate(methods_order[method_idx], v))
          /\ trace' = Append(trace, ReturnedValue(methods_order[method_idx], v))
    /\ pc' = "refute"
    /\ UNCHANGED <<outside, args, df_num, selection, learned, modelled, identified_estimand,
                   methods_order, method_idx, est_error, outputs, exc>>

\* lines 216-224: the method raises; continue with the next, if any
EstimateEffectRaises(messages) ==
    /\ pc = "estimate"
    /\ \E m \in messages :
          /\ est_error' = Some(m)
          /\ trace' = Append(trace, Raised(methods_order[method_idx], m))
    /\ method_idx' = method_idx + 1
    /\ pc' = IF method_idx = Len(methods_order) THEN "refute" ELSE "estimate"
    /\ UNCHANGED <<outside, args, df_num, selection, learned, modelled, identified_estimand,
                   methods_order, estimate, outputs, exc>>

\* lines 227-228: no estimate, no refutation
SkipRefutation ==
    /\ pc = "refute"
    /\ IsNone(estimate)
    /\ pc' = "effect"
    /\ UNCHANGED <<outside, args, df_num, selection, learned, modelled, identified_estimand,
                   cascade, outputs, exc, trace>>

\* lines 228-234: refute_estimate returns
RefuteEstimate ==
    /\ pc = "refute"
    /\ ~IsNone(estimate)
    /\ refute' = Some(RefutationStr)
    /\ trace' = Append(trace, Returned("refuter"))
    /\ pc' = "effect"
    /\ UNCHANGED <<outside, args, df_num, selection, learned, modelled, identified_estimand,
                   cascade, effect_metrics, bundle, exc>>

\* mutant of the refuter's except branch: the error leaves run
RefuteEstimateRaisesSurfaced ==
    /\ pc = "refute"
    /\ ~IsNone(estimate)
    /\ trace' = Append(trace, Raised("refuter", "refuter failed"))
    /\ exc' = Some("RefuterError")
    /\ pc' = "raised"
    /\ UNCHANGED <<outside, args, df_num, selection, learned, modelled, identified_estimand,
                   cascade, outputs>>

\* lines 228-236: refute_estimate raises
RefuteEstimateRaises ==
    /\ pc = "refute"
    /\ ~IsNone(estimate)
    /\ \E m \in {"refuter failed"} :
          /\ refute' = Some(FailedStr("Refutation failed: ", m))
          /\ trace' = Append(trace, Raised("refuter", m))
    /\ pc' = "effect"
    /\ UNCHANGED <<outside, args, df_num, selection, learned, modelled, identified_estimand,
                   cascade, effect_metrics, bundle, exc>>

\* lines 239-244: no estimate value, the metrics stay {}
SkipEffectSize ==
    /\ pc = "effect"
    /\ IsNone(EstVal(estimate))
    /\ pc' = "return"
    /\ UNCHANGED <<outside, args, df_num, selection, learned, modelled, identified_estimand,
                   cascade, outputs, exc, trace>>

\* lines 244-276
ComputeEffectSize ==
    /\ pc = "effect"
    /\ ~IsNone(EstVal(estimate))
    /\ \E mean_is_np_nan, std_is_np_nan \in BOOLEAN :
          effect_metrics' = EffectMetrics(df_num, treatment, outcome, Get(EstVal(estimate)),
                                          mean_is_np_nan, std_is_np_nan)
    /\ pc' = "return"
    /\ UNCHANGED <<outside, args, df_num, selection, learned, modelled, identified_estimand,
                   cascade, refute, bundle, exc, trace>>

\* lines 245-278: a statistic raises
EffectSizeRaises ==
    /\ pc = "effect"
    /\ ~IsNone(EstVal(estimate))
    /\ \E m \in {"statistic failed"} : effect_metrics' = ErrorMetrics(m)
    /\ pc' = "return"
    /\ UNCHANGED <<outside, args, df_num, selection, learned, modelled, identified_estimand,
                   cascade, refute, bundle, exc, trace>>

\* lines 280-303
ResultBundle ==
    [columns |-> df.columns,
     learned_graph |-> [nodes |-> graph_nodes,
                        edges |-> edges_viz,
                        edges_directed |-> edges_directed,
                        dot |-> dot_graph,
                        algorithm |-> "PC"],
     estimand |-> Get(identified_estimand),
     estimate_value |-> BundleEstimateValue(estimate),
     estimate |-> BundleEstimate(estimate, est_error),
     refutation |-> BundleRefutation(refute),
     effect_size |-> effect_metrics]

ReturnBundle ==
    /\ pc = "return"
    /\ bundle' = Some(ResultBundle)
    /\ pc' = "done"
    /\ UNCHANGED <<outside, args, df_num, selection, learned, modelled, identified_estimand,
                   cascade, refute, effect_metrics, exc, trace>>

\* line 152: df_pc, the table handed to the learner
DfPc == Restrict(df_num, subset_cols)
\* line 177: data_for_model, the table handed to CausalModel
DataForModel == Restrict(df_num, graph_nodes)

Pipeline(tables, targets, estimators, max_edges, values, messages) ==
    \/ CallRun(tables, targets, estimators)
    \/ CoerceAndDropNulls
    \/ RaiseInputError
    \/ MinimalGraphFallback
    \/ SelectColumns
    \/ SelectColumnsKeyError
    \/ LearnGraph(max_edges)
    \/ LearnGraphRaises
    \/ ClassifyGraph
    \/ ClassifyGraphRaises
    \/ BuildModel
    \/ BuildModelRaises
    \/ IdentifyEffect
    \/ IdentifyEffectRaises
    \/ EstimateEffect(values)
    \/ EstimateEffectRaises(messages)
    \/ SkipRefutation
    \/ RefuteEstimate
    \/ RefuteEstimateRaises
    \/ SkipEffectSize
    \/ ComputeEffectSize
    \/ EffectSizeRaises
    \/ ReturnBundle

\* the callers name the treatment and outcome by header; the first two
\* columns and a name no table has cover present, equal and missing targets
Targets == {ColumnNames[1], ColumnNames[2], Absent}

\* every table shape, the default estimator, an edgeless learned graph
Next ==
    Pipeline(TablesOf({"const", "index", "text"}, 1..MaxCols, 0..MaxRows), Targets,
             {None}, 0, {NumValue(2)}, {"singular matrix"})
Spec == Init /\ [][Next]_vars

\* every learned graph over three-column tables
NextGraph ==
    Pipeline(TablesOf({"const", "index"}, {3}, {4}), Targets,
             {None}, MaxEdges, {NumValue(2)}, {"singular matrix"})
SpecGraph == Init /\ [][NextGraph]_vars

\* every estimator name, estimate value and error message
NextCascade ==
    Pipeline(TablesOf({"const", "index"}, {3}, {3}), Targets,
             {None} \cup {Some(e) : e \in EstimatorNames}, 0,
             {NoValue, NumValue(0), NumValue(2)}, ErrorMessages)
SpecCascade == Init /\ [][NextCascade]_vars

\* tables wide enough for the selector to rank and cut, with columns of
\* different correlation and spread
NextRank ==
    Pipeline(TablesOf({"const", "index", "binary"}, {MaxCols + 1}, (MaxRows - 1)..MaxRows),
             Targets, {None}, 0, {NumValue(2)}, {"singular matrix"})
SpecRank == Init /\ [][NextRank]_vars

\* outcome columns of every mean and spread, estimates with and without value
NextEffect ==
    Pipeline(TablesOf({"const", "zero", "index", "binary", "signed"}, {3}, 0..MaxRows),
             Targets, {None}, 0, {NoValue, NumValue(0), NumValue(2)}, {"singular matrix"})
SpecEffect == Init /\ [][NextEffect]_vars

(***************************************************************************)
(* The endpoints of backend/app/api/endpoints/causal.py.  A request is     *)
(* handled by causal_analyze or by causal_analyze_auto; either parses the  *)
(* upload with CSVProcessor and may call CausalService.run, whose steps    *)
(* are the actions above.                                                  *)
(***************************************************************************)
\* int(df.isna().any(axis=1).sum())
NullRowsCount(t) == NRows(t) - Len(KeptRows(t, 1))

RowAt(t, i) == [c \in Range(t.columns) |-> t.data[c][i]]
\* int(df.duplicated().sum()): the rows equal to an earlier row
DuplicateRowsCount(t) ==
    Cardinality({i \in 1..NRows(t) : \E j \in 1..(i - 1) : RowAt(t, j) = RowAt(t, i)})

\* mutant of the pre-cleaning check: duplicates are not looked at
CleaningNeededNullsOnly(t) == NullRowsCount(t) > 0

\* causal.py line 35
CleaningNeeded(t) == NullRowsCount(t) > 0 \/ DuplicateRowsCount(t) > 0

\* csv_processor.py lines 170-172, 179: round(rows_removed / rows_before * 100, 2),
\* in hundredths of a percent
RemovalPercentage(rows_removed, rows_before) ==
    IF rows_before > 0
    THEN (2 * rows_removed * 10000 + rows_before) \div (2 * rows_before)
    ELSE 0

\* CSVProcessor.remove_null_rows: the cleaned copy and its statistics
RemoveNullRows(t) ==
    [df_cleaned |-> DropNa(t),
     rows_removed |-> NRows(t) - NRows(DropNa(t)),
     removal_percentage |-> RemovalPercentage(NRows(t) - NRows(DropNa(t)), NRows(t))]

\* csv_processor.py lines 290-305: the names in use are single letters, none
\* of which contains one of the patterns
ExcludePatterns ==
    {"id", "code", "phone", "zip", "postal", "year", "ssn", "identifier", "password"}
ShouldExclude(c) == c \in ExcludePatterns

\* csv_processor.py lines 308-328, 353-354: the cells float() accepts
NumericValueCount(col) ==
    Cardinality({i \in 1..Len(col) : col[i].kind \in {"num", "numtext"}})

\* csv_processor.py lines 333-357: the column is converted
ConvertsToNumeric(t, c) ==
    /\ ~IsNumberDtype(t.data[c])
    /\ ~ShouldExclude(c)
    /\ Len(t.data[c]) > 0
    /\ 5 * NumericValueCount(t.data[c]) >= 4 * Len(t.data[c])

\* CSVProcessor.convert_column_types: the converted copy and the count
ConvertColumnTypes(t) ==
    [df_converted |->
        [columns |-> t.columns,
         data |-> [c \in Range(t.columns) |->
                     IF ConvertsToNumeric(t, c) THEN ToNumeric(t.data[c]) ELSE t.data[c]]],
     numeric_conversions |-> Cardinality({c \in Range(t.columns) : ConvertsToNumeric(t, c)})]

\* raise HTTPException(status_code=400, detail=str(e))
Http400(detail) == [status |-> 400, body |-> [kind |-> "error", detail |-> detail]]
Http200(body) == [status |-> 200, body |-> body]

run_frame == <<pc, args, df_num, selection, learned, modelled, identified_estimand,
               cascade, outputs, exc, trace>>

\* causal.py lines 26-30 and 78-81: generate_df_from_csv raises ValueError
UploadUnreadable(targets, estimators) ==
    /\ ep = "idle" /\ pc = "idle"
    /\ \E h \in {"analyze", "auto"}, tr \in targets, out \in targets, est \in estimators :
          request' = [handler |-> h, treatment |-> tr, outcome |-> out,
                      estimator |-> est, remove_duplicates |-> TRUE]
    /\ response' = Http400("ValueError")
    /\ ep' = "responded"
    /\ UNCHANGED <<run_frame, upload, cleaned_df, cleaning_info, parked>>

\* causal.py lines 19-34: causal_analyze has parsed the upload
CausalAnalyze(tables, targets, estimators) ==
    /\ ep = "idle" /\ pc = "idle"
    /\ \E t \in tables, tr \in targets, out \in targets, est \in estimators :
          /\ request' = [handler |-> "analyze", treatment |-> tr, outcome |-> out,
                         estimator |-> est, remove_duplicates |-> TRUE]
          /\ upload' = t
    /\ ep' = "precheck"
    /\ UNCHANGED <<run_frame, cleaned_df, cleaning_info, response, parked>>

\* causal.py lines 35-47
AnalyzeNeedsCleaning ==
    /\ ep = "precheck"
    /\ CleaningNeeded(upload)
    /\ response' = Http200([kind |-> "guidance",
                            cleaning_needed |-> TRUE,
                            null_rows_count |-> NullRowsCount(upload),
                            duplicate_rows_count |-> DuplicateRowsCount(upload),
                            columns |-> upload.columns])
    /\ ep' = "responded"
    /\ UNCHANGED <<run_frame, request, upload, cleaned_df, cleaning_info, parked>>

\* what the handler passes to service.run
EnterRun(t) ==
    /\ pc = "idle"
    /\ df' = t
    /\ treatment' = request.treatment
    /\ outcome' = request.outcome
    /\ estimator' = request.estimator
    /\ pc' = "coerce"
    /\ ep' = "running"
    /\ UNCHANGED <<df_num, selection, learned, modelled, identified_estimand,
                   cascade, outputs, exc, trace>>

\* causal.py lines 49-51
AnalyzeCallsRun ==
    /\ ep = "precheck"
    /\ ~CleaningNeeded(upload)
    /\ EnterRun(upload)
    /\ UNCHANGED <<request, upload, cleaned_df, cleaning_info, response, parked>>

\* causal.py lines 53-58: result.update(...) and return
AnalyzeReturns ==
    /\ ep = "running" /\ request.handler = "analyze"
    /\ pc = "done"
    /\ response' = Http200([kind |-> "result",
                            result |-> Get(bundle),
                            cleaning_needed |-> FALSE,
                            null_rows_count |-> NullRowsCount(upload),
                            duplicate_rows_count |-> DuplicateRowsCount(upload)])
    /\ ep' = "responded"
    /\ UNCHANGED <<run_frame, request, upload, cleaned_df, cleaning_info, parked>>

\* causal.py lines 59-61 and 153-155: whatever run raised becomes HTTP 400
HandlerFails ==
    /\ ep = "running"
    /\ pc = "raised"
    /\ response' = Http400(Get(exc))
    /\ ep' = "responded"
    /\ UNCHANGED <<run_frame, request, upload, cleaned_df, cleaning_info, parked>>

\* causal.py lines 66-95: causal_analyze_auto has parsed the upload
CausalAnalyzeAuto(tables, targets, estimators) ==
    /\ ep = "idle" /\ pc = "idle"
    /\ \E t \in tables, tr \in targets, out \in targets, est \in estimators,
          rd \in BOOLEAN :
          /\ request' = [handler |-> "auto", treatment |-> tr, outcome |-> out,
                         estimator |-> est, remove_duplicates |-> rd]
          /\ upload' = t
          /\ cleaned_df' = t
          /\ cleaning_info' = [cleaning_performed |-> FALSE,
                               original_rows |-> NRows(t),
                               null_rows_count |-> NullRowsCount(t),
                               duplicate_rows_count |-> DuplicateRowsCount(t),
                               null_rows_removed |-> None,
                               null_removal_percentage |-> None,
                               cleaned_rows |-> None,
                               total_rows_removed |-> None,
                               cleaning_summary |-> <<>>]
    /\ ep' = "nulls"
    /\ UNCHANGED <<run_frame, response, parked>>

\* causal.py lines 98-107
AutoRemoveNullRows ==
    /\ ep = "nulls"
    /\ cleaning_info.null_rows_count > 0
    /\ cleaned_df' = RemoveNullRows(cleaned_df).df_cleaned
    /\ cleaning_info' =
          [cleaning_info EXCEPT
              !.cleaning_performed = TRUE,
              !.null_rows_removed = Some(RemoveNullRows(cleaned_df).rows_removed),
              !.null_removal_percentage = Some(RemoveNullRows(cleaned_df).removal_percentage),
              !.cleaning_summary = Append(@, "Removed rows with nulls.")]
    /\ ep' = "dups"
    /\ UNCHANGED <<run_frame, request, upload, response, parked>>

\* causal.py line 98: no row holds a null
AutoKeepRows ==
    /\ ep = "nulls"
    /\ ~(cleaning_info.null_rows_count > 0)
    /\ ep' = "dups"
    /\ UNCHANGED <<run_frame, request, upload, cleaned_df, cleaning_info, response, parked>>

\* causal.py lines 110-112: no duplicate to remove, or removal not asked for
AutoKeepDuplicates ==
    /\ ep = "dups"
    /\ ~(request.remove_duplicates /\ DuplicateRowsCount(cleaned_df) > 0)
    /\ ep' = "convert"
    /\ UNCHANGED <<run_frame, request, upload, cleaned_df, cleaning_info, response, parked>>

\* causal.py line 113: CSVProcessor has no remove_duplicate_rows, so the
\* attribute lookup raises AttributeError, which lines 153-155 turn into 400
AutoRemoveDuplicateRows ==
    /\ ep = "dups"
    /\ request.remove_duplicates /\ DuplicateRowsCount(cleaned_df) > 0
    /\ response' = Http400("AttributeError")
    /\ ep' = "responded"
    /\ UNCHANGED <<run_frame, request, upload, cleaned_df, cleaning_info, parked>>

\* causal.py lines 124-137
AutoConvertTypes ==
    /\ ep = "convert"
    /\ cleaned_df' = ConvertColumnTypes(cleaned_df).df_converted
    /\ cleaning_info' =
          [cleaning_info EXCEPT
              !.cleaned_rows = Some(NRows(cleaned_df)),
              !.total_rows_removed = Some(cleaning_info.original_rows - NRows(cleaned_df)),
              !.cleaning_summary =
                   LET parts == IF ConvertColumnTypes(cleaned_df).numeric_conversions > 0
                                THEN Append(@, "Converted column(s) to numeric.")
                                ELSE @
                   IN IF parts # <<>> THEN parts
                      ELSE IF cleaning_info.cleaning_performed
                           THEN <<"Cleaning applied.">>
                           ELSE <<"Data already clean.">>]
    /\ ep' = "validate"
    /\ UNCHANGED <<run_frame, request, upload, response, parked>>

\* causal.py lines 140-141: the HTTPException is caught by lines 153-155
AutoTargetsMissing ==
    /\ ep = "validate"
    /\ ~(InSeq(request.treatment, cleaned_df.columns)
         /\ InSeq(request.outcome, cleaned_df.columns))
    /\ response' = Http400("HTTPException")
    /\ ep' = "responded"
    /\ UNCHANGED <<run_frame, request, upload, cleaned_df, cleaning_info, parked>>

\* causal.py lines 140-145
AutoCallsRun ==
    /\ ep = "validate"
    /\ InSeq(request.treatment, cleaned_df.columns)
    /\ InSeq(request.outcome, cleaned_df.columns)
    /\ EnterRun(cleaned_df)
    /\ UNCHANGED <<request, upload, cleaned_df, cleaning_info, response, parked>>

\* causal.py lines 147-152
AutoReturns ==
    /\ ep = "running" /\ request.handler = "auto"
    /\ pc = "done"
    /\ response' = Http200([kind |-> "combined",
                            cleaning_performed |-> cleaning_info.cleaning_performed,
                            cleaning_info |-> cleaning_info,
                            columns |-> cleaned_df.columns,
                            causal |-> Get(bundle)])
    /\ ep' = "responded"
    /\ UNCHANGED <<run_frame, request, upload, cleaned_df, cleaning_info, parked>>

\* the steps of run once a handler has entered it
RunSteps(max_edges, values, messages) ==
    \/ CoerceAndDropNulls
    \/ RaiseInputError
    \/ MinimalGraphFallback
    \/ SelectColumns
    \/ SelectColumnsKeyError
    \/ LearnGraph(max_edges)
    \/ LearnGraphRaises
    \/ ClassifyGraph
    \/ ClassifyGraphRaises
    \/ BuildModel
    \/ BuildModelRaises
    \/ IdentifyEffect
    \/ IdentifyEffectRaises
    \/ EstimateEffect(values)
    \/ EstimateEffectRaises(messages)
    \/ SkipRefutation
    \/ RefuteEstimate
    \/ RefuteEstimateRaises
    \/ SkipEffectSize
    \/ ComputeEffectSize
    \/ EffectSizeRaises
    \/ ReturnBundle

\* uploads with missing cells, repeated rows and text columns
UploadTables == TablesOf({"const", "index", "text", "gap"}, {3}, 0..MaxRows)

NextEndpoint ==
    \/ UploadUnreadable(Targets, {None})
    \/ CausalAnalyze(UploadTables, Targets, {None})
    \/ AnalyzeNeedsCleaning
    \/ AnalyzeCallsRun
    \/ AnalyzeReturns
    \/ HandlerFails
    \/ CausalAnalyzeAuto(UploadTables, Targets, {None})
    \/ AutoRemoveNullRows
    \/ AutoKeepRows
    \/ AutoKeepDuplicates
    \/ AutoRemoveDuplicateRows
    \/ AutoConvertTypes
    \/ AutoTargetsMissing
    \/ AutoCallsRun
    \/ AutoReturns
    \/ RunSteps(0, {NumValue(2)}, {"singular matrix"})
SpecEndpoint == Init /\ [][NextEndpoint]_vars

(***************************************************************************)
(* Two calls of run in flight.  Every name run assigns is a local of the   *)
(* call (CausalService.__init__ sets no attribute, run assigns none, and   *)
(* each request builds its own CausalService), so a call is its frame.     *)
(* One frame executes; the other is parked until the scheduler switches.   *)
(***************************************************************************)
\* the frame of the call that is executing
Frame ==
    [pc |-> pc,
     df |-> df,
     treatment |-> treatment,
     outcome |-> outcome,
     estimator |-> estimator,
     df_num |-> df_num,
     non_const_cols |-> non_const_cols,
     subset_cols |-> subset_cols,
     ranked_cols |-> ranked_cols,
     cg |-> cg,
     edges_directed |-> edges_directed,
     edges_viz |-> edges_viz,
     graph_nodes |-> graph_nodes,
     dot_graph |-> dot_graph,
     nx_graph |-> nx_graph,
     identified_estimand |-> identified_estimand,
     methods_order |-> methods_order,
     method_idx |-> method_idx,
     estimate |-> estimate,
     est_error |-> est_error,
     refute |-> refute,
     effect_metrics |-> effect_metrics,
     bundle |-> bundle,
     exc |-> exc,
     trace |-> trace]

\* mutant of the switch: the estimate is kept on the service object, which
\* both calls share
SwitchSharingEstimate ==
    /\ Frame # parked
    /\ parked' = Frame
    /\ pc' = parked.pc
    /\ df' = parked.df
    /\ treatment' = parked.treatment
    /\ outcome' = parked.outcome
    /\ estimator' = parked.estimator
    /\ df_num' = parked.df_num
    /\ non_const_cols' = parked.non_const_cols
    /\ subset_cols' = parked.subset_cols
    /\ ranked_cols' = parked.ranked_cols
    /\ cg' = parked.cg
    /\ edges_directed' = parked.edges_directed
    /\ edges_viz' = parked.edges_viz
    /\ graph_nodes' = parked.graph_nodes
    /\ dot_graph' = parked.dot_graph
    /\ nx_graph' = parked.nx_graph
    /\ identified_estimand' = parked.identified_estimand
    /\ methods_order' = parked.methods_order
    /\ method_idx' = parked.method_idx
    /\ est_error' = parked.est_error
    /\ refute' = parked.refute
    /\ effect_metrics' = parked.effect_metrics
    /\ bundle' = parked.bundle
    /\ exc' = parked.exc
    /\ trace' = parked.trace
    /\ UNCHANGED <<estimate, ep, request, upload, cleaned_df, cleaning_info, response>>

\* the scheduler suspends the executing call and resumes the other one
Switch ==
    /\ Frame # parked
    /\ parked' = Frame
    /\ pc' = parked.pc
    /\ df' = parked.df
    /\ treatment' = parked.treatment
    /\ outcome' = parked.outcome
    /\ estimator' = parked.estimator
    /\ df_num' = parked.df_num
    /\ non_const_cols' = parked.non_const_cols
    /\ subset_cols' = parked.subset_cols
    /\ ranked_cols' = parked.ranked_cols
    /\ cg' = parked.cg
    /\ edges_directed' = parked.edges_directed
    /\ edges_viz' = parked.edges_viz
    /\ graph_nodes' = parked.graph_nodes
    /\ dot_graph' = parked.dot_graph
    /\ nx_graph' = parked.nx_graph
    /\ identified_estimand' = parked.identified_estimand
    /\ methods_order' = parked.methods_order
    /\ method_idx' = parked.method_idx
    /\ estimate' = parked.estimate
    /\ est_error' = parked.est_error
    /\ refute' = parked.refute
    /\ effect_metrics' = parked.effect_metrics
    /\ bundle' = parked.bundle
    /\ exc' = parked.exc
    /\ trace' = parked.trace
    /\ UNCHANGED <<ep, request, upload, cleaned_df, cleaning_info, response>>

\* one table per path through the column selection: a learned graph, the
\* minimal fallback, and a constant treatment next to two varying columns
PairTables ==
    {MakeTable(ks, 3) : ks \in {<<"index", "index", "index">>,
                                 <<"const", "index", "const">>,
                                 <<"index", "const", "index">>}}

NextPair ==
    \/ Pipeline(PairTables, {ColumnNames[2], Absent}, {None}, 0,
                {NumValue(2)}, {"singular matrix"})
    \/ Switch
SpecPair == Init /\ [][NextPair]_vars

(***************************************************************************)
(* Properties.                                                             *)
(***************************************************************************)
Finished == pc \in {"done", "raised"}
TargetsInTable == InSeq(treatment, df.columns) /\ InSeq(outcome, df.columns)
TheMinimalEdge == <<[source |-> treatment, target |-> outcome]>>
IsMethodCall(e) ==
    e.call \in {"backdoor.linear_regression", "backdoor.propensity_score_weighting",
                "backdoor.propensity_score_matching"}
MethodCalls == SelectSeq(trace, IsMethodCall)
IsLearnerCall(e) == e.call = "learner"
SomeCallRaised(calls) == \E i \in 1..Len(trace) : trace[i].call \in calls /\ trace[i].raised

\* C1: for every table that holds the treatment and the outcome column, run
\* returns a bundle and never raises: the only exception run can raise is the
\* input error for a missing treatment or outcome.
C1_OnlyInputErrorRaised ==
    pc = "raised" => (~TargetsInTable /\ exc = Some("ValueError"))

\* C2: if the structure learner, or the classification of its output, raises,
\* the learner is not called again, the error does not leave run, and
\* edges_directed and edges are exactly the one edge treatment -> outcome, in
\* the locals and in the returned bundle.
C2_LearnerFailureFallsBack ==
    SomeCallRaised({"learner", "classifier"}) =>
        /\ Len(SelectSeq(trace, IsLearnerCall)) = 1
        /\ edges_directed = TheMinimalEdge
        /\ edges_viz = TheMinimalEdge
        /\ pc = "raised" =>
              /\ trace[Len(trace)].call \in {"model_builder", "identifier"}
              /\ trace[Len(trace)].raised
        /\ pc = "done" =>
              /\ Get(bundle).learned_graph.edges_directed = TheMinimalEdge
              /\ Get(bundle).learned_graph.edges = TheMinimalEdge
C2_Witness ==
    /\ pc = "done"
    /\ SomeCallRaised({"learner"})
    /\ treatment # outcome
    /\ Len(subset_cols) >= 3

\* C3: the graph of the adjustment model that run hands to the estimand
\* identifier is acyclic, for every learned graph, every fallback and every
\* treatment and outcome that pass the input check.
C3_ModelGraphAcyclic ==
    pc = "identify" =>
        ~\E path \in UNION {[1..k -> nx_graph.nodes] : k \in 1..Cardinality(nx_graph.nodes)} :
            /\ <<path[Len(path)], path[1]>> \in nx_graph.arcs
            /\ \A i \in 1..(Len(path) - 1) : <<path[i], path[i + 1]>> \in nx_graph.arcs

\* C4: in every returned bundle, learned_graph.edges_directed never holds both
\* (u, v) and (v, u) for two nodes u and v, whatever graph the learner returned.
C4_NoOpposedDirectedEdges ==
    pc = "done" =>
        LET ed == Get(bundle).learned_graph.edges_directed IN
        \A i, j \in 1..Len(ed) :
            ed[i].source # ed[i].target =>
                ~(ed[j].source = ed[i].target /\ ed[j].target = ed[i].source)
C4_Witness ==
    /\ pc = "done"
    /\ ~IsNone(cg)
    /\ \E i, j \in 1..Len(Get(cg)) : Get(cg)[i] = <<Get(cg)[j][2], Get(cg)[j][1]>>
    /\ Len(Get(bundle).learned_graph.edges_directed) = 1
    /\ ~SomeCallRaised({"learner", "classifier"})

\* the preference order of C5, written out per estimator name
ExpectedOrder ==
    LET name == IF IsNone(estimator) THEN "" ELSE Get(estimator) IN
    CASE name = "linear_regression" ->
            <<"backdoor.linear_regression", "backdoor.propensity_score_weighting",
              "backdoor.propensity_score_matching">>
      [] name \in {"psw", "propensity_score_weighting"} ->
            <<"backdoor.propensity_score_weighting", "backdoor.linear_regression",
              "backdoor.propensity_score_matching">>
      [] name \in {"psm", "propensity_score_matching"} ->
            <<"backdoor.propensity_score_matching", "backdoor.linear_regression",
              "backdoor.propensity_score_weighting">>
      [] OTHER ->
            <<"backdoor.linear_regression", "backdoor.propensity_score_weighting",
              "backdoor.propensity_score_matching">>

\* C5: the estimation methods attempted are always a prefix of the caller's
\* mapped method followed by linear_regression, propensity_score_weighting,
\* propensity_score_matching without it; no method is attempted twice, so a
\* method that raised is never retried.
C5_CascadeOrder ==
    /\ Len(MethodCalls) <= Len(ExpectedOrder)
    /\ \A i \in 1..Len(MethodCalls) : MethodCalls[i].call = ExpectedOrder[i]
    /\ \A i, j \in 1..Len(MethodCalls) : i # j => MethodCalls[i].call # MethodCalls[j].call
C5_Witness ==
    /\ pc = "done"
    /\ estimator = Some("psm")
    /\ Len(MethodCalls) = 3
    /\ \A i \in 1..3 : MethodCalls[i].raised

\* C6: the cascade stops at the first method that does not raise: no method
\* is invoked after a success, and the estimate of the bundle is the one that
\* the earliest succeeding method of the preference order returned.
C6_StopsAtFirstSuccess ==
    /\ \A i \in 1..Len(MethodCalls) : ~MethodCalls[i].raised => i = Len(MethodCalls)
    /\ (pc = "done" /\ \E i \in 1..Len(MethodCalls) : ~MethodCalls[i].raised) =>
          LET first == CHOOSE i \in 1..Len(MethodCalls) : ~MethodCalls[i].raised IN
          /\ \A j \in 1..(first - 1) :
                MethodCalls[j].raised /\ MethodCalls[j].call = ExpectedOrder[j]
          /\ MethodCalls[first].call = ExpectedOrder[first]
          /\ Get(bundle).estimate =
                Some([text |-> "estimate", method |-> MethodCalls[first].call,
                      value |-> MethodCalls[first].value, msg |-> ""])
C6_Witness ==
    /\ pc = "done"
    /\ Len(MethodCalls) = 2
    /\ MethodCalls[1].raised
    /\ ~MethodCalls[2].raised
    /\ estimator = Some("propensity_score_matching")

\* C7: the estimate field of the bundle is "Estimation failed: <message of
\* the last method attempted>", with estimate_value null, if and only if every
\* method of the cascade raised, for every message; and when a method
\* succeeded no estimation error is in the bundle.
C7_FailureStringIffAllRaised ==
    pc = "done" =>
        LET all_raised == \A i \in 1..Len(MethodCalls) : MethodCalls[i].raised
            failure == [text |-> "Estimation failed: ", method |-> "",
                        value |-> [kind |-> "none", v |-> 0],
                        msg |-> MethodCalls[Len(MethodCalls)].msg]
        IN /\ all_raised <=>
                (Get(bundle).estimate = Some(failure) /\ Get(bundle).estimate_value = None)
           /\ ~all_raised =>
                (Get(bundle).estimate # None
                 /\ Get(Get(bundle).estimate).text # "Estimation failed: ")

\* C8: if the treatment or the outcome is not a column of the table, run
\* raises the input error before the column selector, the learner, the model
\* builder, the identifier or an estimator is invoked, and returns no bundle.
C8_InputErrorBeforeAnyWork ==
    (pc # "idle" /\ ~TargetsInTable) =>
        /\ pc \in {"coerce", "check", "raised"}
        /\ pc = "raised" => exc = Some("ValueError")
        /\ trace = <<>>
        /\ bundle = None
        /\ IsNone(subset_cols) /\ IsNone(edges_directed) /\ IsNone(nx_graph)
C8_Witness ==
    /\ pc = "raised"
    /\ exc = Some("ValueError")
    /\ InSeq(treatment, df.columns)
    /\ ~InSeq(outcome, df.columns)
    /\ NRows(df) >= 2

IsConstantColumn(col) == Len(col) >= 1 /\ \A i \in 1..Len(col) : col[i] = col[1]

\* C9: for any table that holds the treatment and the outcome and whose
\* treatment column is constant, whatever the other columns are, run raises
\* nothing (no external component failing) and returns a bundle whose
\* edges_directed is exactly the edge treatment -> outcome.
C9_ConstantTreatmentDegrades ==
    (Finished /\ TargetsInTable /\ IsConstantColumn(df.data[treatment])
        /\ ~SomeCallRaised({"model_builder", "identifier"})) =>
        /\ pc = "done"
        /\ Get(bundle).learned_graph.edges_directed = TheMinimalEdge

\* C10: whenever run invokes the structure learner, the number of (distinct)
\* columns it passes is at most max(3, min(n - 2, 20)), n being the rows left
\* after coercion and null-row dropping.
C10_LearnerColumnBound ==
    pc = "learn" =>
        LET n == NRows(df_num)
            m == IF n - 2 < 20 THEN n - 2 ELSE 20
        IN Cardinality(Range(subset_cols)) <= (IF m > 3 THEN m ELSE 3)

\* a column of the coerced, null-free table that holds two different numbers
Varies(c) == \E i, j \in 1..Len(df_num.data[c]) : df_num.data[c][i] # df_num.data[c][j]

\* C11: for any table that holds the treatment, the outcome and at least one
\* other non-constant numeric column, run (no external component failing)
\* returns a bundle whose learned_graph.nodes is the full input column list,
\* same names in the same order, constant and unselected columns included.
C11_NodesAreAllColumns ==
    (/\ Finished
     /\ TargetsInTable
     /\ \E c \in Range(df.columns) \ {treatment, outcome} : Varies(c)
     /\ ~SomeCallRaised({"model_builder", "identifier"})) =>
        /\ pc = "done"
        /\ Get(bundle).learned_graph.nodes = df.columns

\* the classifier returned the edge lists that run holds
Classified == ~IsNone(cg) /\ ~IsNone(edges_viz) /\ ~SomeCallRaised({"classifier"})

\* C12: for every undirected pair {u, v} of the raw adjacency,
\* learned_graph.edges holds exactly one edge between u and v, from the
\* lexicographically smaller name to the larger, in whatever order the raw
\* edges are enumerated.
C12_UndirectedPairOrientation ==
    Classified =>
        /\ \A u, v \in Range(df.columns) :
              (<<u, v>> \in Range(Get(cg)) /\ <<v, u>> \in Range(Get(cg)) /\ StrLess(u, v)) =>
                  /\ Cardinality({i \in 1..Len(edges_viz) :
                         {edges_viz[i].source, edges_viz[i].target} = {u, v}}) = 1
                  /\ \E i \in 1..Len(edges_viz) :
                         edges_viz[i] = [source |-> u, target |-> v]
        /\ pc = "done" => Get(bundle).learned_graph.edges = edges_viz
C12_Witness ==
    /\ pc = "done"
    /\ Classified
    /\ \E i, j \in 1..Len(Get(cg)) :
          i < j /\ Get(cg)[i] = <<"b", "a">> /\ Get(cg)[j] = <<"a", "b">>

\* C13: a pair is undirected if and only if both (u, v) and (v, u) are in the
\* raw adjacency; a raw edge whose reverse is absent is in edges_directed with
\* its orientation unchanged; learned_graph.edges is the edges_directed
\* entries plus one representative per undirected pair and nothing else.
C13_ClassifierPartition ==
    Classified =>
        LET raw == Get(cg)
            OneWay(e) == <<e[2], e[1]>> \notin Range(raw)
            one_way == SelectSeq(raw, OneWay)
            two_way == {{e[1], e[2]} : e \in {x \in Range(raw) : ~OneWay(x)}}
        IN /\ edges_directed =
                 [i \in 1..Len(one_way) |-> [source |-> one_way[i][1], target |-> one_way[i][2]]]
           /\ \A i \in 1..Len(edges_directed) : InSeq(edges_directed[i], edges_viz)
           /\ \A i \in 1..Len(edges_viz) :
                 ~InSeq(edges_viz[i], edges_directed) <=>
                     {edges_viz[i].source, edges_viz[i].target} \in two_way
           /\ Len(edges_viz) = Len(edges_directed) + Cardinality(two_way)
           /\ pc = "done" =>
                 /\ Get(bundle).learned_graph.edges = edges_viz
                 /\ Get(bundle).learned_graph.edges_directed = edges_directed
C13_Witness ==
    /\ pc = "done"
    /\ Classified
    /\ Len(Get(cg)) = 3
    /\ Len(edges_directed) = 1
    /\ Len(edges_viz) = 2

IsNodeLine(l) == l.line = "node"
IsArcLine(l) == l.line = "arc"

\* C14: the adjustment model's node set is the full column list of the table
\* and its arc set is exactly learned_graph.edges_directed; the representative
\* of an undirected pair is never an arc of the model; the dot text lists the
\* same nodes and the same arcs.
C14_ModelIsDirectedEdgesOverAllColumns ==
    ~IsNone(nx_graph) =>
        LET node_lines == SelectSeq(dot_graph, IsNodeLine)
            arc_lines == SelectSeq(dot_graph, IsArcLine)
        IN /\ nx_graph.nodes = Range(df.columns)
           /\ nx_graph.arcs = {<<edges_directed[i].source, edges_directed[i].target>> :
                                  i \in 1..Len(edges_directed)}
           /\ Classified =>
                 \A e \in Range(Get(cg)) :
                     <<e[2], e[1]>> \in Range(Get(cg)) => e \notin nx_graph.arcs
           /\ [i \in 1..Len(node_lines) |-> node_lines[i].a] = df.columns
           /\ [i \in 1..Len(arc_lines) |-> [source |-> arc_lines[i].a, target |-> arc_lines[i].b]]
                 = edges_directed
           /\ Len(dot_graph) = Len(node_lines) + Len(arc_lines) + 2
           /\ pc = "done" =>
                 /\ Get(bundle).learned_graph.dot = dot_graph
                 /\ Get(bundle).learned_graph.edges_directed = edges_directed
C14_Witness ==
    /\ pc = "done"
    /\ Classified
    /\ Cardinality(nx_graph.arcs) = 1
    /\ \E i \in 1..Len(edges_viz) :
          <<edges_viz[i].source, edges_viz[i].target>> \notin nx_graph.arcs

IsSelectorCall(e) == e.call = "selector"

\* C15: whenever a subset of columns is produced for structure learning, by
\* the column selector or by keeping every non-constant column, the treatment
\* and the outcome are both in it, for every row count and column count.
C15_TargetsInSubset ==
    Len(non_const_cols) >= 2 =>
        /\ \E i \in 1..Len(subset_cols) : subset_cols[i] = treatment
        /\ \E i \in 1..Len(subset_cols) : subset_cols[i] = outcome
C15_Witness ==
    /\ pc = "learn"
    /\ Len(SelectSeq(trace, IsSelectorCall)) = 1
    /\ treatment # outcome
    /\ Len(subset_cols) < Len(non_const_cols)

LearnerWasGiven == pc = "learn" \/ \E i \in 1..Len(trace) : trace[i].call = "learner"

\* C16: zero-variance columns are excluded before ranking and learning: every
\* column the column selector ranks and every column of the subset passed to
\* the structure learner has at least two distinct values.
C16_NoConstantColumnRankedOrLearned ==
    /\ LearnerWasGiven => \A i \in 1..Len(subset_cols) : Varies(subset_cols[i])
    /\ ~IsNone(ranked_cols) => \A i \in 1..Len(Get(ranked_cols)) : Varies(Get(ranked_cols)[i])
C16_Witness ==
    /\ pc = "learn"
    /\ ~IsNone(ranked_cols)
    /\ Len(Get(ranked_cols)) >= 2
    /\ treatment # outcome
    /\ \E c \in Range(df.columns) : ~Varies(c)

\* the score of a ranked column as a fraction: its squared correlation with
\* the outcome, or its variance when the outcome is constant
Score(c) ==
    LET x == Values(df_num.data[c])
        y == Values(df_num.data[outcome])
    IN IF \E i \in 1..Len(non_const_cols) : non_const_cols[i] = outcome
       THEN <<CovN(x, y) * CovN(x, y), VarN(x) * VarN(y)>>
       ELSE <<VarN(x), 1>>
Higher(c, d) == Score(c)[1] * Score(d)[2] > Score(d)[1] * Score(c)[2]

\* C17: if the non-constant columns number at most max(3, min(n - 2, 20)), the
\* subset passed to the learner is exactly the non-constant columns; otherwise
\* it is the treatment and the outcome plus the top-ranked remaining columns:
\* no column left out scores strictly higher than a ranked column taken, the
\* score being the absolute correlation with the outcome, or the standard
\* deviation when that correlation is undefined.
C17_SubsetSelection ==
    /\ pc = "learn" =>
          LET n == NRows(df_num)
              m == IF n - 2 < 20 THEN n - 2 ELSE 20
              bound == IF m > 3 THEN m ELSE 3
              taken == SubSeq(subset_cols, 3, Len(subset_cols))
          IN IF Len(non_const_cols) <= bound
             THEN subset_cols = non_const_cols
             ELSE /\ subset_cols[1] = treatment
                  /\ subset_cols[2] = outcome
                  /\ Range(taken) \subseteq Range(non_const_cols) \ {treatment, outcome}
                  /\ \A c \in Range(non_const_cols) \ Range(subset_cols) :
                        \A d \in Range(taken) : ~Higher(c, d)
                  /\ taken # <<>> =>
                        taken = SubSeq(Get(ranked_cols), 1, Len(taken))
    /\ ~IsNone(ranked_cols) =>
          /\ Range(Get(ranked_cols)) = Range(non_const_cols) \ {treatment, outcome}
          /\ \A i, j \in 1..Len(Get(ranked_cols)) :
                i < j => ~Higher(Get(ranked_cols)[j], Get(ranked_cols)[i])
C17_Witness ==
    /\ pc = "learn"
    /\ treatment # outcome
    /\ Len(subset_cols) = 3
    /\ \E c \in Range(non_const_cols) \ Range(subset_cols) : Higher(subset_cols[3], c)
\* the ranking by standard deviation happens as well
C17_WitnessByStd ==
    /\ ~IsNone(ranked_cols)
    /\ \A i \in 1..Len(non_const_cols) : non_const_cols[i] # outcome
    /\ \E i, j \in 1..Len(Get(ranked_cols)) : Higher(Get(ranked_cols)[i], Get(ranked_cols)[j])

\* C18: if fewer than 2 non-constant columns remain after coercion and
\* null-row dropping, run never invokes the column selector or the structure
\* learner, and learned_graph.edges_directed and learned_graph.edges are both
\* exactly the one edge treatment -> outcome.
C18_FewColumnsFallback ==
    (/\ pc \notin {"idle", "coerce"}
     /\ TargetsInTable
     /\ Cardinality({c \in Range(df.columns) : Varies(c)}) < 2) =>
        /\ \A i \in 1..Len(trace) : trace[i].call \notin {"selector", "learner", "classifier"}
        /\ pc # "learn"
        /\ pc # "check" =>
              /\ edges_directed = <<[source |-> treatment, target |-> outcome]>>
              /\ edges_viz = <<[source |-> treatment, target |-> outcome]>>
        /\ pc = "done" =>
              /\ Get(bundle).learned_graph.edges_directed =
                    <<[source |-> treatment, target |-> outcome]>>
              /\ Get(bundle).learned_graph.edges =
                    <<[source |-> treatment, target |-> outcome]>>
        /\ pc = "raised" => exc \in {Some("ModelError"), Some("IdentifyError")}
C18_Witness ==
    /\ pc = "done"
    /\ treatment # outcome
    /\ NRows(df_num) >= 2
    /\ Cardinality({c \in Range(df.columns) : Varies(c)}) = 1
    /\ Len(df.columns) >= 3

KnownEstimatorNames ==
    {"linear_regression", "psw", "propensity_score_weighting", "psm",
     "propensity_score_matching"}

\* C19: if the caller's estimator name is not a known method name, or is
\* "auto", empty or absent, the cascade uses exactly the default order
\* linear_regression, propensity_score_weighting, propensity_score_matching:
\* the name raises nothing, the method list is never empty and the defaults
\* are not reordered.
C19_UnknownNameUsesDefaults ==
    (pc \notin {"idle"} /\ (IsNone(estimator) \/ Get(estimator) \notin KnownEstimatorNames)) =>
        /\ pc \in {"estimate", "refute", "effect", "return", "done"} =>
              methods_order = <<"backdoor.linear_regression",
                                "backdoor.propensity_score_weighting",
                                "backdoor.propensity_score_matching">>
        /\ \A i \in 1..Len(MethodCalls) :
              MethodCalls[i].call = <<"backdoor.linear_regression",
                                      "backdoor.propensity_score_weighting",
                                      "backdoor.propensity_score_matching">>[i]
        /\ pc = "raised" =>
              exc \in {Some("ValueError"), Some("KeyError"), Some("ModelError"),
                       Some("IdentifyError")}
        /\ pc \in {"refute", "effect", "return", "done"} => Len(MethodCalls) >= 1
C19_Witness ==
    /\ pc = "done"
    /\ estimator = Some("other")
    /\ Len(MethodCalls) = 3
    /\ ~MethodCalls[3].raised

IsRefuterCall(e) == e.call = "refuter"
RefuterCalls == SelectSeq(trace, IsRefuterCall)

\* C20: the refuter is invoked exactly once when the cascade produced an
\* estimate and never when the estimate is null; if the refuter raises, run
\* still returns a bundle, whose refutation field is the string
\* "Refutation failed: <message>".
C20_RefuterOnceAndContained ==
    /\ Len(RefuterCalls) <= 1
    /\ RefuterCalls # <<>> =>
          /\ ~trace[Len(trace) - 1].raised
          /\ trace[Len(trace) - 1].call \in {"backdoor.linear_regression",
                                            "backdoor.propensity_score_weighting",
                                            "backdoor.propensity_score_matching"}
          /\ trace[Len(trace)].call = "refuter"
    /\ pc \in {"effect", "return", "done"} =>
          Len(RefuterCalls) =
              (IF \E i \in 1..Len(MethodCalls) : ~MethodCalls[i].raised THEN 1 ELSE 0)
    /\ (RefuterCalls # <<>> /\ RefuterCalls[1].raised) =>
          /\ pc # "raised"
          /\ pc = "done" =>
                Get(bundle).refutation =
                    [text |-> "Refutation failed: ", method |-> "",
                     value |-> [kind |-> "none", v |-> 0], msg |-> RefuterCalls[1].msg]
C20_Witness ==
    /\ pc = "done"
    /\ RefuterCalls # <<>>
    /\ RefuterCalls[1].raised
    /\ Len(MethodCalls) = 2

\* C21: when the refuter is skipped because every estimator failed, the
\* refutation field of the bundle is null; it is a string only when a
\* refutation was attempted.
C21_RefutationNullWhenSkipped ==
    pc = "done" =>
        /\ RefuterCalls = <<>> => Get(bundle).refutation = None
        /\ Get(bundle).refutation # None => RefuterCalls # <<>>

MetricFields ==
    {"outcome_mean", "outcome_std", "treatment_mean", "group_mean_diff",
     "percent_of_outcome_mean", "standardized_effect", "effect_score"}
\* a method of the cascade returned an estimate that carries a number
EstimateValueExists ==
    \E i \in 1..Len(MethodCalls) : ~MethodCalls[i].raised /\ MethodCalls[i].value.kind = "num"

\* C22: in every bundle returned, also when the estimate is absent,
\* effect_size is either a record with all seven metrics or {error: <string>}.
C22_EffectSizeShape ==
    pc = "done" =>
        \/ MetricFields \subseteq DOMAIN Get(bundle).effect_size
        \/ /\ "error" \in DOMAIN Get(bundle).effect_size
           /\ Get(bundle).effect_size.error.text = "Effect size computation failed: "

\* the bundle returned carries the effect metrics
MetricsProduced == pc = "done" /\ "effect_score" \in DOMAIN Get(bundle).effect_size
\* the number the cascade's estimate carries
EstimateNumber == MethodCalls[Len(MethodCalls)].value.v
\* the outcome and treatment columns that the metrics are computed from
OutcomeColumn == [i \in 1..Len(df_num.data[outcome]) |-> df_num.data[outcome][i].v]
TreatmentColumn == [i \in 1..Len(df_num.data[treatment]) |-> df_num.data[treatment][i].v]
OutcomeMeanIsZero == Len(OutcomeColumn) > 0 /\ SumSeq(OutcomeColumn) = 0
OutcomeStdIsZero ==
    /\ Len(OutcomeColumn) >= 2
    /\ \A i \in 1..Len(OutcomeColumn) : OutcomeColumn[i] = OutcomeColumn[1]

\* C23: whenever effect metrics are produced, effect_score is
\* standardized_effect if that is non-null, else percent_of_outcome_mean if
\* that is non-null, else the raw estimate value; it is never null.
C23_EffectScorePriority ==
    MetricsProduced =>
        LET m == Get(bundle).effect_size IN
        /\ m.effect_score =
              (IF m.standardized_effect # None THEN m.standardized_effect
               ELSE IF m.percent_of_outcome_mean # None THEN m.percent_of_outcome_mean
               ELSE Some([k |-> "rat", a |-> 0, n |-> EstimateNumber, d |-> 1]))
        /\ m.effect_score # None
C23_Witness ==
    /\ MetricsProduced
    /\ Get(bundle).effect_size.standardized_effect = None
    /\ Get(bundle).effect_size.percent_of_outcome_mean = None
    /\ EstimateNumber = 2
    /\ treatment # outcome

\* est / mean * 100 and est / std as the metrics hold them
ExpectedPercent ==
    IF Len(OutcomeColumn) = 0 THEN NanNum
    ELSE RatNum(EstimateNumber * 100 * Len(OutcomeColumn), SumSeq(OutcomeColumn))
ExpectedStandardized ==
    IF Len(OutcomeColumn) < 2 THEN NanNum
    ELSE OverSqrt(EstimateNumber, VarN(OutcomeColumn),
                  Len(OutcomeColumn) * (Len(OutcomeColumn) - 1))

\* C24 as claimed: whenever effect metrics are produced,
\* percent_of_outcome_mean is null if and only if the outcome mean equals 0;
\* otherwise it equals estimate value / outcome mean * 100.
C24_PercentNullIffMeanZero ==
    MetricsProduced =>
        LET pct == Get(bundle).effect_size.percent_of_outcome_mean IN
        /\ pct = None <=> OutcomeMeanIsZero
        /\ pct # None => pct = Some(ExpectedPercent)

\* C24 as amended: percent_of_outcome_mean is null if the outcome mean equals
\* 0, and only if that mean is 0 or undefined (the table has no rows); when it
\* is not null it equals estimate value / outcome mean * 100.
C24_PercentNullWhenMeanZeroOrUndefined ==
    MetricsProduced =>
        LET pct == Get(bundle).effect_size.percent_of_outcome_mean IN
        /\ OutcomeMeanIsZero => pct = None
        /\ pct = None => (OutcomeMeanIsZero \/ Len(OutcomeColumn) = 0)
        /\ pct # None => pct = Some(ExpectedPercent)
C24_Witness ==
    /\ MetricsProduced
    /\ OutcomeMeanIsZero
    /\ ~OutcomeStdIsZero
    /\ EstimateNumber = 2
    /\ Get(bundle).effect_size.percent_of_outcome_mean = None

\* C25 as claimed: whenever effect metrics are produced, standardized_effect
\* is null if and only if the outcome standard deviation equals 0, outcome_std
\* being null in that case; otherwise it equals estimate value / outcome std.
C25_StandardizedNullIffStdZero ==
    MetricsProduced =>
        LET m == Get(bundle).effect_size IN
        /\ m.standardized_effect = None <=> OutcomeStdIsZero
        /\ OutcomeStdIsZero => m.outcome_std = None
        /\ m.standardized_effect # None => m.standardized_effect = Some(ExpectedStandardized)

\* C25 as amended: standardized_effect is null if and only if outcome_std is
\* null; outcome_std is null when the outcome standard deviation equals 0 and
\* otherwise only when it is undefined (fewer than 2 rows); when it is not
\* null, standardized_effect equals estimate value / outcome std.
C25_StandardizedNullIffStdNull ==
    MetricsProduced =>
        LET m == Get(bundle).effect_size IN
        /\ m.standardized_effect = None <=> m.outcome_std = None
        /\ OutcomeStdIsZero => m.outcome_std = None
        /\ m.outcome_std = None => (OutcomeStdIsZero \/ Len(OutcomeColumn) < 2)
        /\ m.standardized_effect # None => m.standardized_effect = Some(ExpectedStandardized)
C25_Witness ==
    /\ MetricsProduced
    /\ OutcomeStdIsZero
    /\ ~OutcomeMeanIsZero
    /\ EstimateNumber = 2
    /\ Get(bundle).effect_size.standardized_effect = None
    /\ Get(bundle).effect_size.outcome_std = None

\* the rows whose treatment is v, and the sum of the outcome over rows
RowsWhere(v) == {i \in 1..Len(TreatmentColumn) : TreatmentColumn[i] = v}
OutcomeSum(rows) ==
    SumSeq([i \in 1..Len(OutcomeColumn) |-> IF i \in rows THEN OutcomeColumn[i] ELSE 0])

\* C26: group_mean_diff is non-null only when the treatment column has exactly
\* 2 distinct values, and it then equals the outcome mean of the rows with the
\* larger treatment value minus that of the rows with the smaller one.
C26_GroupMeanDiff ==
    (MetricsProduced /\ Get(bundle).effect_size.group_mean_diff # None) =>
        LET vals == {TreatmentColumn[i] : i \in 1..Len(TreatmentColumn)}
            hi == RowsWhere(CHOOSE v \in vals : \A w \in vals : v >= w)
            lo == RowsWhere(CHOOSE v \in vals : \A w \in vals : v <= w)
        IN /\ Cardinality(vals) = 2
           /\ Get(bundle).effect_size.group_mean_diff =
                 Some(RatNum(OutcomeSum(hi) * Cardinality(lo) - OutcomeSum(lo) * Cardinality(hi),
                             Cardinality(hi) * Cardinality(lo)))
C26_Witness ==
    /\ MetricsProduced
    /\ Get(bundle).effect_size.group_mean_diff # None
    /\ Get(Get(bundle).effect_size.group_mean_diff).n < 0
    /\ treatment # outcome

(***************************************************************************)
(* C30.  run leaves the caller's table as it was, whether it returns or    *)
(* raises: from the moment run is entered df never changes; the coercion   *)
(* and the null-row drop make df_num from a copy; the table handed to the  *)
(* learner and the table handed to the causal model are df_num restricted  *)
(* to some of its columns, so neither holds a missing value.               *)
(***************************************************************************)
NoMissing(t) == \A c \in Range(t.columns) : \A i \in 1..NRows(t) : t.data[c][i].kind # "nan"
CopyCleaned == DropNa(CoerceNumeric(df))
LearnerHasTable == pc \in {"learn", "classify"}
ModelHasTable == graph_nodes # None

C30_Tables ==
    /\ df_num # None => df_num = CopyCleaned /\ NoMissing(df_num)
    /\ LearnerHasTable =>
           /\ Range(subset_cols) \subseteq Range(df_num.columns)
           /\ DfPc = Restrict(CopyCleaned, subset_cols)
           /\ NoMissing(DfPc)
    /\ ModelHasTable =>
           /\ Range(graph_nodes) \subseteq Range(df_num.columns)
           /\ DataForModel = Restrict(CopyCleaned, graph_nodes)
           /\ NoMissing(DataForModel)

C30_CallerTableUnchanged == [](C30_Tables) /\ [][pc # "idle" => df' = df]_vars

\* a call returned on a table whose text column was coerced and lost a row
C30_Witness ==
    /\ pc = "done"
    /\ \E c \in Range(df.columns) : \E i \in 1..NRows(df) : df.data[c][i].kind = "text"
    /\ \E c \in Range(df.columns) : \E i \in 1..NRows(df) : df.data[c][i].kind = "numtext"
    /\ NRows(df_num) < NRows(df)
    /\ NRows(df_num) > 0
    /\ ModelHasTable

\* a call raised on a table whose text column was coerced
C30_WitnessRaised ==
    /\ pc = "raised"
    /\ \E c \in Range(df.columns) : \E i \in 1..NRows(df) : df.data[c][i].kind = "text"
    /\ df_num # None /\ df_num # df

(***************************************************************************)
(* C28.  causal_analyze invokes run if and only if the uploaded table has  *)
(* no row with a null and no duplicate row; otherwise it answers           *)
(* cleaning_needed = true with the two counts and no causal result; and    *)
(* whenever run was invoked the response carries cleaning_needed = false   *)
(* with both counts 0.                                                     *)
(***************************************************************************)
RunInvoked == pc # "idle"
HandledBy(h) == ep # "idle" /\ request.handler = h /\ upload # None
Answered(h) == HandledBy(h) /\ ep = "responded"
UploadClean == NullRowsCount(upload) = 0 /\ DuplicateRowsCount(upload) = 0

\* run is entered only on a clean upload, and a clean upload is never answered without it
RunIffClean ==
    /\ HandledBy("analyze") /\ RunInvoked => UploadClean
    /\ Answered("analyze") /\ UploadClean => RunInvoked

GuidanceWhenUnclean ==
    Answered("analyze") /\ ~UploadClean =>
        /\ response.status = 200
        /\ response.body.kind = "guidance"
        /\ response.body.cleaning_needed = TRUE
        /\ response.body.null_rows_count = NullRowsCount(upload)
        /\ response.body.duplicate_rows_count = DuplicateRowsCount(upload)

CarriesCleanResult ==
    /\ response.status = 200
    /\ response.body.kind = "result"
    /\ response.body.result = Get(bundle)
    /\ response.body.cleaning_needed = FALSE
    /\ response.body.null_rows_count = 0
    /\ response.body.duplicate_rows_count = 0

\* the claim as stated: every response after run was invoked carries the clean result
C28_RunIffCleanUpload ==
    /\ RunIffClean
    /\ GuidanceWhenUnclean
    /\ Answered("analyze") /\ RunInvoked => bundle # None /\ CarriesCleanResult

\* C28 amended: the clean result is carried whenever run was invoked and
\* returned; when run raised, the response is the HTTP 400 error
C28_RunIffCleanUploadWhenRunReturns ==
    /\ RunIffClean
    /\ GuidanceWhenUnclean
    /\ Answered("analyze") /\ RunInvoked =>
           IF pc = "done" THEN CarriesCleanResult
           ELSE pc = "raised" /\ response = Http400(Get(exc))

\* a clean upload with a text column was analysed and answered
C28_Witness ==
    /\ Answered("analyze")
    /\ UploadClean /\ NRows(upload) > 1
    /\ pc = "done"
    /\ response.status = 200
    /\ response.body.kind = "result"

\* an upload with both null rows and duplicate rows was sent back
C28_WitnessGuidance ==
    /\ Answered("analyze")
    /\ NullRowsCount(upload) > 0 /\ DuplicateRowsCount(upload) > 0
    /\ ~RunInvoked
    /\ response.body.kind = "guidance"

(***************************************************************************)
(* C29.  causal_analyze_auto, for any upload that has the treatment and    *)
(* outcome columns, cleans the table and then runs the causal analysis on  *)
(* the cleaned table, answering with the cleaning metadata and the causal  *)
(* result once run has returned; uploads with duplicate rows included.     *)
(***************************************************************************)
UploadHasTargets ==
    /\ InSeq(request.treatment, upload.columns)
    /\ InSeq(request.outcome, upload.columns)

C29_AutoCleansThenRuns ==
    Answered("auto") /\ UploadHasTargets =>
        /\ RunInvoked
        /\ df = cleaned_df
        /\ pc = "done" =>
              /\ response.status = 200
              /\ response.body.kind = "combined"
              /\ response.body.causal = Get(bundle)

\* the part of C29 the code keeps: uploads without removable duplicates
C29_HoldsWithoutDuplicates ==
    Answered("auto") /\ UploadHasTargets
        /\ ~(request.remove_duplicates /\ DuplicateRowsCount(DropNa(upload)) > 0) =>
        /\ RunInvoked
        /\ df = cleaned_df
        /\ cleaned_df = ConvertColumnTypes(DropNa(upload)).df_converted
        /\ pc = "done" =>
              /\ response.status = 200
              /\ response.body.kind = "combined"
              /\ response.body.causal = Get(bundle)

(***************************************************************************)
(* C27.  Interleaved calls of run do not affect one another: the bundle of *)
(* each call is the bundle the call produces alone on its own arguments,   *)
(* given the answers its own learner, estimators and refuter gave.         *)
(***************************************************************************)
\* what a call alone computes from its arguments and the answers it got
AloneTable(f) == DropNa(CoerceNumeric(f.df))
AnswersOf(f, calls) == SelectSeq(f.trace, LAMBDA e : e.call \in calls)
GraphLearned(f) ==
    /\ \E i \in 1..Len(f.trace) : f.trace[i] = Returned("learner")
    /\ \E i \in 1..Len(f.trace) : f.trace[i] = Returned("classifier")
AloneEdges(f) ==
    IF Len(NonConstCols(AloneTable(f))) >= 2 /\ GraphLearned(f)
    THEN GraphToEdgeSets(Get(f.cg))
    ELSE [dir |-> MinimalEdges(f.treatment, f.outcome),
          viz |-> MinimalEdges(f.treatment, f.outcome)]
AloneEstimate(f) ==
    LET calls == AnswersOf(f, Range(DefaultMethods)) IN
    IF calls # <<>> /\ ~calls[Len(calls)].raised
    THEN Some(Estimate(calls[Len(calls)].call, calls[Len(calls)].value))
    ELSE None
AloneEstError(f) ==
    LET failed == SelectSeq(AnswersOf(f, Range(DefaultMethods)), LAMBDA e : e.raised) IN
    IF failed # <<>> THEN Some(failed[Len(failed)].msg) ELSE None
AloneRefute(f) ==
    LET calls == AnswersOf(f, {"refuter"}) IN
    IF calls = <<>> THEN None
    ELSE IF calls[1].raised THEN Some(FailedStr("Refutation failed: ", calls[1].msg))
    ELSE Some(RefutationStr)
AloneMetrics(f) ==
    IF IsNone(EstVal(AloneEstimate(f))) THEN {EmptyMetrics}
    ELSE {EffectMetrics(AloneTable(f), f.treatment, f.outcome,
                        Get(EstVal(AloneEstimate(f))), a, b) : a, b \in BOOLEAN}
         \cup {ErrorMetrics("statistic failed")}
AloneBundle(f, metrics) ==
    [columns |-> f.df.columns,
     learned_graph |-> [nodes |-> AloneTable(f).columns,
                        edges |-> AloneEdges(f).viz,
                        edges_directed |-> AloneEdges(f).dir,
                        dot |-> EdgesToDot(AloneTable(f).columns, AloneEdges(f).dir),
                        algorithm |-> "PC"],
     estimand |-> "backdoor",
     estimate_value |-> BundleEstimateValue(AloneEstimate(f)),
     estimate |-> BundleEstimate(AloneEstimate(f), AloneEstError(f)),
     refutation |-> BundleRefutation(AloneRefute(f)),
     effect_size |-> metrics]
ReturnedAsAlone(f) ==
    f.pc = "done" => \E m \in AloneMetrics(f) : f.bundle = Some(AloneBundle(f, m))

C27_CallsDoNotInterfere == ReturnedAsAlone(Frame) /\ ReturnedAsAlone(parked)

\* two calls on different tables, each suspended part-way through, have both
\* returned, one with an estimate and one without
C27_Witness ==
    /\ pc = "done" /\ parked.pc = "done"
    /\ df # parked.df
    /\ ~IsNone(estimate) /\ IsNone(parked.estimate)
    /\ parked.cg # None
    /\ \E i \in 1..Len(trace) : trace[i].call = "refuter"
====
